---- MODULE Spec2Model ----
(***************************************************************************)
(* Grievance de-duplication backend: the batch orchestrator (processBatch  *)
(* and the submit-batch route), the embedding client's retry loop, and the *)
(* adaptive threshold store with its feedback route.                       *)
(*                                                                         *)
(* Scores and thresholds are REAL numbers in the source; here they are     *)
(* integers in thousandths (0.85 is 850), so that the learning rate 0.05   *)
(* is 50 and the rounding to three decimals is exact.                      *)
(***************************************************************************)
EXTENDS Integers, Sequences, FiniteSets, TLC

VARIABLES
    thresholds,     \* table adaptive_thresholds: threshold_type -> row
    feedback_logs,  \* table feedback_logs: bag of rows (row -> number of copies)
    grievances,     \* table grievances: sequence of rows, the index is the id
    batches,        \* table processing_batches: sequence of rows, the index is the id
    task,           \* per batch: the position and the locals of its processBatch call
    nFeedback,      \* number of feedback requests handled so far
    lastRequest,    \* history: the body of the last feedback request handled
    run,            \* history: the current run of consecutive UNIQUE->DUPLICATE events
    call,           \* the last call of the embedding client: its inputs and its result
    job,            \* one processBatch call followed through its classification
    duplicate_clusters, \* table duplicate_clusters: sequence of rows, the index is the id
    cluster_members     \* table cluster_members: set of rows

\* the variables of the classification and cluster side
detail == <<call, job, duplicate_clusters, cluster_members>>

vars == <<thresholds, feedback_logs, grievances, batches, task, nFeedback,
          lastRequest, run, call, job, duplicate_clusters, cluster_members>>

----------------------------------------------------------------------------
(* Bounds of the model *)

MaxFeedback == 5      \* feedback requests in a behaviour of SpecFeedback
MaxFaultyFeedback == 3 \* feedback requests in a behaviour of SpecFeedbackFaulty
MaxCorrections == 1   \* feedback requests in a behaviour of Spec (batch side)
MaxBatches == 1       \* batches submitted in a behaviour
MaxPdfs == 2          \* PDFs in one batch
MaxEntries == 2       \* grievance entries in one batch
MaxTexts == 2         \* texts in one call of the embedding client
MaxItems == 2         \* valid grievances in the batch that is followed in detail
MaxPage == 2          \* pages of one PDF
MaxDeletes == 1       \* area deletions in a behaviour
MaxWords == 2         \* words of a text given to preprocessText
MaxHandlers == 2      \* feedback handlers running at the same time
MaxPoints == 4        \* points given to dbscanCluster

----------------------------------------------------------------------------
(* Small helpers *)

Max(a, b) == IF a >= b THEN a ELSE b
Min(a, b) == IF a <= b THEN a ELSE b

Status == {"UNIQUE", "DUPLICATE", "NEAR_DUPLICATE"}

----------------------------------------------------------------------------
(* Adaptive threshold store *)

ThresholdTypes ==
    {"duplicate", "near_duplicate", "cosine_weight", "jaccard_weight",
     "ngram_weight", "metadata_weight"}

Row(cur, lo, hi) ==
    [current_value |-> cur, min_value |-> lo, max_value |-> hi, adjustment_count |-> 0]

\* INSERT OR IGNORE INTO adaptive_thresholds ... (the six seeded rows)
SeedThresholds ==
    [t \in ThresholdTypes |->
        CASE t = "duplicate"       -> Row(850, 750, 950)
          [] t = "near_duplicate"  -> Row(650, 500, 800)
          [] t = "cosine_weight"   -> Row(500, 300, 700)
          [] t = "jaccard_weight"  -> Row(250, 100, 400)
          [] t = "ngram_weight"    -> Row(150, 50, 300)
          [] t = "metadata_weight" -> Row(100, 0, 250)]

\* the map getAdaptiveThresholds returns when its SELECT throws
FallbackThresholds ==
    [t \in ThresholdTypes |->
        CASE t = "duplicate"       -> 500
          [] t = "near_duplicate"  -> 500
          [] t = "cosine_weight"   -> 550
          [] t = "jaccard_weight"  -> 250
          [] t = "ngram_weight"    -> 150
          [] t = "metadata_weight" -> 50]

\* getAdaptiveThresholds(env): every row of the table overrides the in-code
\* default of its kind; all six kinds are seeded, so the result is the stored
\* current_value of each kind, or the fallback map when the read fails.
getAdaptiveThresholds(store, readOk) ==
    IF readOk THEN [t \in ThresholdTypes |-> store[t].current_value]
    ELSE FallbackThresholds

LEARNING_RATE == 50

\* variant: a pair outside the chain is treated like UNIQUE -> DUPLICATE
ThresholdToAdjustUnlisted(orig, corr) ==
    CASE orig = "UNIQUE" /\ corr = "DUPLICATE"         -> "duplicate"
      [] orig = "DUPLICATE" /\ corr = "UNIQUE"         -> "duplicate"
      [] orig = "UNIQUE" /\ corr = "NEAR_DUPLICATE"    -> "near_duplicate"
      [] orig = "NEAR_DUPLICATE" /\ corr = "UNIQUE"    -> "near_duplicate"
      [] orig = "NEAR_DUPLICATE" /\ corr = "DUPLICATE" -> "near_duplicate"
      [] orig = "DUPLICATE" /\ corr = "NEAR_DUPLICATE" -> "duplicate"
      [] OTHER -> "duplicate"

\* the if / else-if chain of updateThresholdsFromFeedback: which kind to adjust
ThresholdToAdjust(orig, corr) ==
    CASE orig = "UNIQUE" /\ corr = "DUPLICATE"         -> "duplicate"
      [] orig = "DUPLICATE" /\ corr = "UNIQUE"         -> "duplicate"
      [] orig = "UNIQUE" /\ corr = "NEAR_DUPLICATE"    -> "near_duplicate"
      [] orig = "NEAR_DUPLICATE" /\ corr = "UNIQUE"    -> "near_duplicate"
      [] orig = "NEAR_DUPLICATE" /\ corr = "DUPLICATE" -> "near_duplicate"
      [] orig = "DUPLICATE" /\ corr = "NEAR_DUPLICATE" -> "duplicate"
      [] OTHER -> "none"

\* variant: DUPLICATE -> NEAR_DUPLICATE lowers the duplicate threshold, as the
\* comment on that branch says
AdjustmentAsCommented(orig, corr) ==
    CASE orig = "UNIQUE" /\ corr = "DUPLICATE"         -> 0 - LEARNING_RATE
      [] orig = "DUPLICATE" /\ corr = "UNIQUE"         -> LEARNING_RATE
      [] orig = "UNIQUE" /\ corr = "NEAR_DUPLICATE"    -> 0 - LEARNING_RATE
      [] orig = "NEAR_DUPLICATE" /\ corr = "UNIQUE"    -> LEARNING_RATE
      [] orig = "NEAR_DUPLICATE" /\ corr = "DUPLICATE" -> LEARNING_RATE
      [] orig = "DUPLICATE" /\ corr = "NEAR_DUPLICATE" -> 0 - LEARNING_RATE
      [] OTHER -> 0

\* the same chain: the signed step
Adjustment(orig, corr) ==
    CASE orig = "UNIQUE" /\ corr = "DUPLICATE"         -> 0 - LEARNING_RATE
      [] orig = "DUPLICATE" /\ corr = "UNIQUE"         -> LEARNING_RATE
      [] orig = "UNIQUE" /\ corr = "NEAR_DUPLICATE"    -> 0 - LEARNING_RATE
      [] orig = "NEAR_DUPLICATE" /\ corr = "UNIQUE"    -> LEARNING_RATE
      [] orig = "NEAR_DUPLICATE" /\ corr = "DUPLICATE" -> LEARNING_RATE
      [] orig = "DUPLICATE" /\ corr = "NEAR_DUPLICATE" -> LEARNING_RATE
      [] OTHER -> 0

\* bounds?.min_value || 0.3 and bounds?.max_value || 0.95 (0 is falsy)
MinVal(row) == IF row.min_value = 0 THEN 300 ELSE row.min_value
MaxVal(row) == IF row.max_value = 0 THEN 950 ELSE row.max_value

\* variant: the step is stored without the clamp
NewValueUnclamped(currentValue, adjustment, minVal, maxVal) ==
    currentValue + adjustment

\* Math.max(minVal, Math.min(maxVal, currentValue + adjustment))
NewValue(currentValue, adjustment, minVal, maxVal) ==
    Max(minVal, Min(maxVal, currentValue + adjustment))

\* variant: the count moves only when the value does
UpdateRowIfChanged(row, newValue) ==
    IF newValue = row.current_value THEN row
    ELSE [row EXCEPT !.current_value = newValue,
                     !.adjustment_count = row.adjustment_count + 1]

\* UPDATE adaptive_thresholds SET current_value = ?, adjustment_count = adjustment_count + 1
UpdateRow(row, newValue) ==
    [row EXCEPT !.current_value = newValue,
                !.adjustment_count = row.adjustment_count + 1]

----------------------------------------------------------------------------
(* Feedback route *)

EmptyBag == [r \in {} |-> 0]

BagAdd(B, e) ==
    IF e \in DOMAIN B THEN [B EXCEPT ![e] = @ + 1]
    ELSE [x \in DOMAIN B \cup {e} |-> IF x = e THEN 1 ELSE B[x]]

BagCount(B, e) == IF e \in DOMAIN B THEN B[e] ELSE 0

\* logFeedback: INSERT INTO feedback_logs (... applied_to_threshold = 1)
logFeedback(logs, gid, orig, corr) ==
    BagAdd(logs, [grievance_id |-> gid, original_status |-> orig,
                  corrected_status |-> corr])

\* updateThresholdsFromFeedback(feedback, env): the table after the call.
\* readOk: the SELECT of getAdaptiveThresholds succeeded (else the fallback map
\* is the base of the step).  The row is read for its bounds and then updated.
updateThresholdsFromFeedback(store, orig, corr, readOk) ==
    LET kind == ThresholdToAdjust(orig, corr)
        currentThresholds == getAdaptiveThresholds(store, readOk)
    IN  IF kind = "none" THEN store
        ELSE [store EXCEPT ![kind] =
                UpdateRow(store[kind],
                          NewValue(currentThresholds[kind], Adjustment(orig, corr),
                                   MinVal(store[kind]), MaxVal(store[kind])))]

\* UPDATE grievances SET duplicate_status = ? WHERE id = ?
SetDuplicateStatus(table, gid, corr) ==
    [table EXCEPT ![gid].duplicate_status = corr]

\* where a statement of the handler may throw; "none": every statement succeeds
FeedbackFailures == {"none", "log", "bounds", "update", "status"}

\* POST /api/feedback for an authenticated admin and a body that names an
\* existing grievance and both statuses (any other request returns 401, 403 or
\* 400 before the first statement).  A throwing statement ends the handler with
\* a 500 response; the statements before it stay applied.
Feedback(gid, orig, corr, readOk, failAt) ==
    LET kind == ThresholdToAdjust(orig, corr)
        logged == failAt # "log"
        adjusted == logged /\ kind # "none" /\ failAt \notin {"bounds", "update"}
        reachedStatus == logged /\ (kind = "none" \/ adjusted)
        newStore == IF adjusted
                    THEN updateThresholdsFromFeedback(thresholds, orig, corr, readOk)
                    ELSE thresholds
    IN  /\ gid \in DOMAIN grievances
        /\ kind = "none" => failAt \notin {"bounds", "update"}
        /\ feedback_logs' = IF logged THEN logFeedback(feedback_logs, gid, orig, corr)
                            ELSE feedback_logs
        /\ thresholds' = newStore
        /\ grievances' = IF reachedStatus /\ failAt # "status"
                         THEN SetDuplicateStatus(grievances, gid, corr)
                         ELSE grievances
        /\ nFeedback' = nFeedback + 1
        /\ lastRequest' = [grievance_id |-> gid, original_status |-> orig,
                           corrected_status |-> corr]
        /\ run' = IF orig = "UNIQUE" /\ corr = "DUPLICATE" /\ readOk /\ adjusted
                  THEN [run EXCEPT !.n = @ + 1]
                  ELSE [v0 |-> newStore["duplicate"].current_value,
                        adj0 |-> newStore["duplicate"].adjustment_count,
                        n |-> 0]
        /\ UNCHANGED <<batches, task, detail>>

\* one grievance stored before the first feedback request
StoredGrievance ==
    [batch_id |-> 0, duplicate_status |-> "UNIQUE", has_embedding |-> TRUE]

InitStore ==
    /\ thresholds = SeedThresholds
    /\ feedback_logs = EmptyBag
    /\ nFeedback = 0
    /\ lastRequest = [grievance_id |-> 0, original_status |-> "none",
                      corrected_status |-> "none"]
    /\ run = [v0 |-> SeedThresholds["duplicate"].current_value, adj0 |-> 0, n |-> 0]
    /\ call = [pc |-> "idle"]
    /\ job = [pc |-> "idle"]
    /\ duplicate_clusters = <<>>
    /\ cluster_members = {}

InitFeedback ==
    /\ InitStore
    /\ grievances = <<StoredGrievance>>
    /\ batches = <<>>
    /\ task = <<>>

NextFeedback ==
    /\ nFeedback < MaxFeedback
    /\ \E gid \in DOMAIN grievances, orig \in Status, corr \in Status :
            Feedback(gid, orig, corr, TRUE, "none")

\* the feedback route alone, every statement of every handler succeeding
SpecFeedback == InitFeedback /\ [][NextFeedback]_vars

NextFeedbackFaulty ==
    /\ nFeedback < MaxFaultyFeedback
    /\ \E gid \in DOMAIN grievances, orig \in Status, corr \in Status,
          readOk \in BOOLEAN, failAt \in FeedbackFailures :
            Feedback(gid, orig, corr, readOk, failAt)

\* the feedback route alone, any statement of a handler may throw
SpecFeedbackFaulty == InitFeedback /\ [][NextFeedbackFaulty]_vars

----------------------------------------------------------------------------
(* Embedding client: generateBatchEmbeddings *)

\* what one POST to an embedding endpoint comes back with
\*   "valid":    2xx, a list with one vector per text, each of 384 numbers
\*   "ragged":   2xx, a list with one vector per text, the first of 384
\*               numbers and a later one of another length
\*   "flat":     2xx, a flat list of numbers (the singleton shape), any length
\*   "badshape": 2xx, any other body
\*   "non2xx":   a response that is not ok
\*   "neterr":   fetch throws
Outcomes == {"valid", "ragged", "flat", "badshape", "non2xx", "neterr"}

\* the responses a request for nTexts texts can get: a ragged list needs a
\* second vector
Responses(nTexts) == IF nTexts < 2 THEN Outcomes \ {"ragged"} ELSE Outcomes

MAX_RETRIES == 3

\* the custom server's body is returned only when it passes the shape check
\* (the length of the list and the length of its first vector)
CustomAccepted(outcome, nTexts) == outcome \in {"valid", "ragged"}

\* the fallback endpoint's body is returned when it passes the shape check, or
\* when one text was sent and the body starts with a number
FallbackAccepted(outcome, nTexts) ==
    outcome \in {"valid", "ragged"} \/ (outcome = "flat" /\ nTexts = 1)

\* the retry loop: a failed attempt (non-2xx, thrown or caught) moves to the
\* next one; after attempt MAX_RETRIES the loop ends and the function throws
RECURSIVE FallbackLoop(_, _, _)
FallbackLoop(attempt, nTexts, outs) ==
    IF attempt > MAX_RETRIES
    THEN [result |-> "threw", fallbackRequests |-> MAX_RETRIES]
    ELSE IF FallbackAccepted(outs[attempt], nTexts)
         THEN [result |-> "returned", fallbackRequests |-> attempt]
         ELSE FallbackLoop(attempt + 1, nTexts, outs)

\* generateBatchEmbeddings(texts, hfToken, customUrl) for nTexts >= 1 texts:
\* whether it returned vectors or threw, and the requests it sent
generateBatchEmbeddings(nTexts, customUrl, customOut, outs) ==
    IF customUrl /\ CustomAccepted(customOut, nTexts)
    THEN [result |-> "returned", customRequests |-> 1, fallbackRequests |-> 0]
    ELSE LET hf == FallbackLoop(1, nTexts, outs)
         IN  [result |-> hf.result,
              customRequests |-> IF customUrl THEN 1 ELSE 0,
              fallbackRequests |-> hf.fallbackRequests]

NoCall == [result |-> "none", customRequests |-> 0, fallbackRequests |-> 0]

\* the response whose body the function returned ("flat" is returned wrapped
\* in a one-element list), "none" when it threw
AcceptedResponse(res, customOut, outs) ==
    IF res.result # "returned" THEN "none"
    ELSE IF res.fallbackRequests = 0 THEN customOut
    ELSE outs[res.fallbackRequests]

\* one call of generateBatchEmbeddings with its inputs: the number of texts,
\* whether a custom endpoint is configured, and what every request gets back
EmbedTexts ==
    /\ call.pc = "idle"
    /\ \E nTexts \in 1..MaxTexts, customUrl \in BOOLEAN :
      \E customOut \in Responses(nTexts), outs \in [1..MAX_RETRIES -> Responses(nTexts)] :
        LET res == generateBatchEmbeddings(nTexts, customUrl, customOut, outs)
        IN  /\ call' = [pc |-> "called", nTexts |-> nTexts, customUrl |-> customUrl,
                        customOut |-> customOut, outs |-> outs, res |-> res,
                        accepted |-> AcceptedResponse(res, customOut, outs)]
            /\ UNCHANGED <<thresholds, feedback_logs, grievances, batches, task,
                           nFeedback, lastRequest, run, job, duplicate_clusters,
                           cluster_members>>

InitEmbedding ==
    /\ InitStore
    /\ grievances = <<>>
    /\ batches = <<>>
    /\ task = <<>>

\* the embedding client alone, called once with any inputs
SpecEmbedding == InitEmbedding /\ [][EmbedTexts]_vars

----------------------------------------------------------------------------
(* Batch orchestrator: classification of one batch *)

\* similarity levels the kernel may report for a comparison
Scores == {0, 550, 700, 900}

\* lines 260-275: the local status from the best score among the earlier
\* grievances of the same PDF (bestLocalMatch exists only for a score > 0)
LocalStatus(bestLocalScore, thr) ==
    IF bestLocalScore > 0 /\ bestLocalScore >= thr["duplicate"]
    THEN "LOCAL_DUPLICATE"
    ELSE IF bestLocalScore > 0 /\ bestLocalScore >= thr["near_duplicate"]
         THEN "LOCAL_NEAR_DUPLICATE"
         ELSE "LOCAL_UNIQUE"

\* lines 376-392: the global status from the top match of the search pool
GlobalStatus(hasMatches, topScore, thr) ==
    IF hasMatches /\ topScore >= thr["duplicate"] THEN "DUPLICATE"
    ELSE IF hasMatches /\ topScore >= thr["near_duplicate"] THEN "NEAR_DUPLICATE"
    ELSE "UNIQUE"

\* lines 287-290 and 395: finalStatus after the two layers
HierarchicalStatus(localStatus, hasMatches, topScore, thr) ==
    IF localStatus = "LOCAL_DUPLICATE" THEN "DUPLICATE"
    ELSE GlobalStatus(hasMatches, topScore, thr)

\* applyDBSCANClustering: a member of a cluster other than its primary that
\* is still UNIQUE becomes NEAR_DUPLICATE; nothing else changes
DBSCANStatus(finalStatus, clustered) ==
    IF clustered /\ finalStatus = "UNIQUE" THEN "NEAR_DUPLICATE" ELSE finalStatus

\* whether an earlier grievance of the batch comes from the same PDF
HasLocalCandidate(all, i) == \E j \in 1..(i - 1) : all[j].pdfId = all[i].pdfId

\* the similarity inputs of one batch: per grievance its best local score, its
\* top score against the search pool, and whether DBSCAN put it in a cluster
\* as a non-primary member
SimilarityInputs(all, poolEmpty) ==
    { sim \in [1..Len(all) -> [local : Scores, top : Scores, clustered : BOOLEAN]] :
        /\ \A i \in 1..Len(all) :
              /\ ~HasLocalCandidate(all, i) => sim[i].local = 0
              /\ (poolEmpty /\ i = 1) => sim[i].top = 0
        /\ Len(all) < 2 => \A i \in 1..Len(all) : ~sim[i].clustered
        /\ \E i \in 1..Len(all) : ~sim[i].clustered }

\* hierarchicalDeduplication followed by applyDBSCANClustering: finalStatus of
\* every grievance of the batch
Classify(all, sim, poolEmpty, thr) ==
    [i \in 1..Len(all) |->
        DBSCANStatus(
            HierarchicalStatus(LocalStatus(sim[i].local, thr),
                               ~(poolEmpty /\ i = 1), sim[i].top, thr),
            sim[i].clustered)]

\* calculateBatchStats(results)
CountStatus(results, st) ==
    Cardinality({i \in 1..Len(results) : results[i].status = st})

\* a variant that follows the two-way scheme (only DUPLICATE and UNIQUE)
calculateBatchStatsTwoWay(results) ==
    [unique |-> CountStatus(results, "UNIQUE"),
     duplicate |-> CountStatus(results, "DUPLICATE"),
     nearDuplicate |-> 0]

calculateBatchStats(results) ==
    [unique |-> CountStatus(results, "UNIQUE"),
     duplicate |-> CountStatus(results, "DUPLICATE"),
     nearDuplicate |-> CountStatus(results, "NEAR_DUPLICATE")]

----------------------------------------------------------------------------
(* Similarity kernel: computeContextualSimilarity and topKSimilaritySearch *)

Categories == {"WATER", "ELECTRICITY", "OTHER"}

\* what the texts and vectors of two grievances give: cosine of the vectors,
\* Jaccard and bigram overlap of the words (thousandths), and the numbers of
\* shared rare words and of shared location keywords
Profile(c, j, n, r, l) == [cosine |-> c, jaccard |-> j, ngram |-> n, rare |-> r, location |-> l]

PairProfiles ==
    {Profile(200, 0, 0, 0, 0),          \* unrelated texts
     Profile(700, 200, 0, 1, 0),        \* a paraphrase: close vectors, few shared words
     Profile(900, 800, 700, 4, 0),      \* overlapping texts
     Profile(1000, 1000, 1000, 4, 1)}   \* the same text

\* the profiles drawn for a comparison with a row of the historical pool
HistoricalProfiles == {Profile(200, 0, 0, 0, 0), Profile(900, 800, 700, 4, 0)}

\* a || b on numbers: 0 is falsy
OrElse(a, b) == IF a = 0 THEN b ELSE a

\* Math.round(x * 1000) / 1000 for x = num / den, in thousandths
RoundDiv(num, den) == (2 * num + den) \div (2 * den)

\* calculateAdaptiveWeightedScore(scores, thresholds) with metadata = 0
calculateAdaptiveWeightedScore(pr, thr) ==
    LET cosineWeight == OrElse(thr["cosine_weight"], 500)
        jaccardWeight == OrElse(thr["jaccard_weight"], 250)
        ngramWeight == OrElse(thr["ngram_weight"], 150)
        metadataWeight == OrElse(thr["metadata_weight"], 100)
        totalWeight == cosineWeight + jaccardWeight + ngramWeight + metadataWeight
    IN  RoundDiv(pr.cosine * cosineWeight + pr.jaccard * jaccardWeight
                   + pr.ngram * ngramWeight + 0 * metadataWeight, totalWeight)

\* lines 461-472: cat1 and cat2 default to OTHER when absent ("")
categoryModifier(category1, category2) ==
    LET cat1 == IF category1 = "" THEN "OTHER" ELSE category1
        cat2 == IF category2 = "" THEN "OTHER" ELSE category2
    IN  IF cat1 # "OTHER" /\ cat2 # "OTHER"
        THEN (IF cat1 = cat2 THEN 100 ELSE -250)
        ELSE 0

\* computeContextualSimilarity(grievance1, grievance2, thresholds).combinedScore
\* for two objects with these category properties
computeContextualSimilarity(category1, category2, pr, thr) ==
    LET rareBoost == Min(80, pr.rare * 20)
        locationBoost == Min(60, pr.location * 30)
        baseScore == calculateAdaptiveWeightedScore(pr, thr)
    IN  Max(0, Min(1000, baseScore + rareBoost + locationBoost
                           + categoryModifier(category1, category2)))

\* the object topKSimilaritySearch hands to the kernel for a pool item
\* (lines 545-549): processedText, embedding and metadata; no category
PoolItemCategory(existing) == ""

----------------------------------------------------------------------------
(* hierarchicalDeduplication *)

Areas == {"", "north", "south"}

\* the values of matched ids: a grievance id, the placeholder `batch_<i>` of
\* the i-th grievance of the batch (counted from 0), or null
RealId(n) == <<"id", n>>
BatchRef(i) == <<"batch", i>>
NullId == <<"null", 0>>

\* The input of one classification, inp:
\*   items  the grievances of the batch in order: pdfId, pageNumber, category, area
\*   pairs  what the kernel measures between items j < i, at <<j, i>>
\*   hist   the historical pool in the order of the SELECT: id and vector
\*          source of the row, and what the kernel measures against item i
PairOf(inp, i, existing) ==
    IF existing.id[1] = "batch" THEN inp.pairs[<<existing.id[2] + 1, i>>]
    ELSE inp.hist[existing.h].sims[i]

\* lines 236-275 for item i: the earlier items of its PDF, its best local
\* match (the first one with the highest score above 0), its local status
LocalCandidates(inp, i) == {j \in 1..(i - 1) : inp.items[j].pdfId = inp.items[i].pdfId}

LocalScore(inp, i, j, thr) ==
    computeContextualSimilarity(inp.items[i].category, inp.items[j].category,
                                inp.pairs[<<j, i>>], thr)

BestLocalScore(inp, i, thr) ==
    LET scores == {LocalScore(inp, i, j, thr) : j \in LocalCandidates(inp, i)} \cup {0}
    IN  CHOOSE m \in scores : \A x \in scores : x <= m

\* lines 240-257: the index of bestLocalMatch, the first earlier item of the
\* PDF whose score is above every score before it; 0 stands for null
BestLocalMatch(inp, i, thr) ==
    LET best == BestLocalScore(inp, i, thr)
    IN  IF best = 0 THEN 0
        ELSE CHOOSE j \in LocalCandidates(inp, i) :
                /\ LocalScore(inp, i, j, thr) = best
                /\ \A x \in LocalCandidates(inp, i) :
                      x < j => LocalScore(inp, i, x, thr) < best

\* lines 305-324: historical rows (their category and area are not selected,
\* so they are null) followed by the earlier items of the batch
ComparisonPool(inp, i) ==
    [h \in 1..Len(inp.hist) |->
        [id |-> RealId(inp.hist[h].id), category |-> "", area |-> "", h |-> h]]
    \o [j \in 1..(i - 1) |->
        [id |-> BatchRef(j - 1), category |-> inp.items[j].category,
         area |-> inp.items[j].area, h |-> 0]]

\* lines 333-358: the category filter, then the area filter, each applied
\* only when it leaves something
SearchPool(inp, i) ==
    LET g == inp.items[i]
        comparisonPool == ComparisonPool(inp, i)
        SameCategory(item) == item.category = "" \/ item.category = g.category
        SameArea(item) == item.area = "" \/ item.area = g.area
        categoryFiltered == SelectSeq(comparisonPool, SameCategory)
        afterCategory == IF g.category # "OTHER" /\ categoryFiltered # <<>>
                         THEN categoryFiltered ELSE comparisonPool
        areaFiltered == SelectSeq(afterCategory, SameArea)
    IN  IF g.area # "" /\ areaFiltered # <<>> THEN areaFiltered ELSE afterCategory

\* topKSimilaritySearch: the scores of the pool and the first item with the
\* highest one (the sort is stable), 0 when the pool is empty
PoolScores(inp, i, thr) ==
    LET pool == SearchPool(inp, i)
    IN  [k \in 1..Len(pool) |->
            computeContextualSimilarity(inp.items[i].category, PoolItemCategory(pool[k]),
                                        PairOf(inp, i, pool[k]), thr)]

TopMatch(inp, i, thr) ==
    LET pool == SearchPool(inp, i)
        scores == PoolScores(inp, i, thr)
    IN  IF pool = <<>> THEN [found |-> FALSE, id |-> NullId, combinedScore |-> 0]
        ELSE LET k == CHOOSE k \in 1..Len(pool) :
                        /\ \A x \in 1..Len(pool) : scores[x] <= scores[k]
                        /\ \A x \in 1..(k - 1) : scores[x] < scores[k]
             IN  [found |-> TRUE, id |-> pool[k].id, combinedScore |-> scores[k]]

\* hierarchicalDeduplication for item i: the fields saveGrievancesToDB reads
\* (localDuplicateOf is the batch index, from 1, of the referenced grievance
\* object, 0 when the field is not set)
HierarchicalResult(inp, i, thr) ==
    LET localScore == BestLocalScore(inp, i, thr)
        localStatus == LocalStatus(localScore, thr)
        top == TopMatch(inp, i, thr)
        globalStatus == GlobalStatus(top.found, top.combinedScore, thr)
        localDuplicateOf == IF localStatus = "LOCAL_UNIQUE" THEN 0
                            ELSE BestLocalMatch(inp, i, thr)
    IN  IF localStatus = "LOCAL_DUPLICATE"
        THEN [finalStatus |-> "DUPLICATE", globalMatchId |-> NullId,
              globalScore |-> localScore, localScore |-> localScore,
              localDuplicateOf |-> localDuplicateOf]
        ELSE [finalStatus |-> globalStatus,
              globalMatchId |-> IF globalStatus = "UNIQUE" THEN NullId ELSE top.id,
              globalScore |-> top.combinedScore, localScore |-> localScore,
              localDuplicateOf |-> localDuplicateOf]

hierarchicalDeduplication(inp, thr) ==
    [i \in 1..Len(inp.items) |-> HierarchicalResult(inp, i, thr)]

----------------------------------------------------------------------------
(* dbscanCluster and applyDBSCANClustering *)

minPts == 2

RECURSIVE SetToSeq(_)
SetToSeq(S) ==
    IF S = {} THEN <<>>
    ELSE LET m == CHOOSE x \in S : \A y \in S : x <= y
         IN  <<m>> \o SetToSeq(S \ {m})

\* computeSimilarityMatrix: cosine of the two vectors, 1.0 on the diagonal
Similarity(inp, p, q) ==
    IF p = q THEN 1000
    ELSE inp.pairs[<<Min(p, q), Max(p, q)>>].cosine

\* regionQuery: the points within distance eps of p, p included
regionQuery(inp, p, eps) ==
    {q \in 1..Len(inp.items) : 1000 - Similarity(inp, p, q) <= eps}

InQueue(queue, x) == \E k \in 1..Len(queue) : queue[k] = x

\* expandCluster: the loop over the queue, labels being the array it updates
\* (-1 unvisited, 0 noise, otherwise the cluster id)
RECURSIVE expandCluster(_, _, _, _, _)
expandCluster(inp, labels, queue, clusterId, eps) ==
    IF queue = <<>> THEN labels
    ELSE LET q == Head(queue)
             rest == Tail(queue)
             relabelled == IF labels[q] = 0 THEN [labels EXCEPT ![q] = clusterId]
                           ELSE labels
         IN  IF relabelled[q] # -1
             THEN expandCluster(inp, relabelled, rest, clusterId, eps)
             ELSE LET qNeighbors == regionQuery(inp, q, eps)
                      fresh == {x \in qNeighbors : ~InQueue(rest, x)}
                  IN  expandCluster(inp, [relabelled EXCEPT ![q] = clusterId],
                                    IF Cardinality(qNeighbors) >= minPts
                                    THEN rest \o SetToSeq(fresh) ELSE rest,
                                    clusterId, eps)

\* dbscanCluster: the main loop from point i on; returns the labels
RECURSIVE dbscanLabels(_, _, _, _, _)
dbscanLabels(inp, labels, i, clusterId, eps) ==
    IF i > Len(inp.items) THEN labels
    ELSE IF labels[i] # -1 THEN dbscanLabels(inp, labels, i + 1, clusterId, eps)
    ELSE LET neighbors == regionQuery(inp, i, eps)
         IN  IF Cardinality(neighbors) < minPts
             THEN dbscanLabels(inp, [labels EXCEPT ![i] = 0], i + 1, clusterId, eps)
             ELSE dbscanLabels(inp,
                               expandCluster(inp, [labels EXCEPT ![i] = clusterId],
                                             SetToSeq(neighbors), clusterId, eps),
                               i + 1, clusterId + 1, eps)

dbscanCluster(inp, eps) ==
    dbscanLabels(inp, [i \in 1..Len(inp.items) |-> -1], 1, 1, eps)

\* lines 176-183: the cluster of point i when it has at least 2 members, and
\* its primary: the member with the lowest page number, the first of them in
\* batch order (the sort is stable)
ClusterOf(inp, labels, i) ==
    IF labels[i] <= 0 THEN {}
    ELSE LET members == {j \in 1..Len(inp.items) : labels[j] = labels[i]}
         IN  IF Cardinality(members) >= minPts THEN members ELSE {}

PrimaryOf(inp, members) ==
    CHOOSE a \in members :
        \A b \in members :
            \/ inp.items[a].pageNumber < inp.items[b].pageNumber
            \/ inp.items[a].pageNumber = inp.items[b].pageNumber /\ a <= b

\* a variant that marks every member of a cluster but its primary, whatever
\* its status
applyDBSCANClusteringAnyStatus(results, inp, thr) ==
    LET eps == 1000 - OrElse(thr["near_duplicate"], 300)
        labels == dbscanCluster(inp, eps)
        Clustered(i) ==
            LET members == ClusterOf(inp, labels, i)
            IN  IF Len(inp.items) >= 2 /\ members # {} /\ PrimaryOf(inp, members) # i
                THEN PrimaryOf(inp, members) - 1 ELSE -1
    IN  [i \in 1..Len(inp.items) |->
            [finalStatus |-> IF Clustered(i) >= 0 THEN "NEAR_DUPLICATE"
                             ELSE results[i].finalStatus,
             globalMatchId |-> results[i].globalMatchId,
             globalScore |-> results[i].globalScore,
             localScore |-> results[i].localScore,
             localDuplicateOf |-> results[i].localDuplicateOf,
             clusteredWith |-> Clustered(i)]]

\* applyDBSCANClustering(grievances, thresholds): every member of a cluster
\* but its primary that is still UNIQUE becomes NEAR_DUPLICATE, clusteredWith
\* being the index (from 0) of the primary; -1 stands for no clusteredWith
applyDBSCANClustering(results, inp, thr) ==
    LET eps == 1000 - OrElse(thr["near_duplicate"], 300)
        labels == dbscanCluster(inp, eps)
        Clustered(i) ==
            LET members == ClusterOf(inp, labels, i)
            IN  IF Len(inp.items) >= 2 /\ members # {} /\ PrimaryOf(inp, members) # i
                   /\ results[i].finalStatus = "UNIQUE"
                THEN PrimaryOf(inp, members) - 1 ELSE -1
    IN  [i \in 1..Len(inp.items) |->
            [finalStatus |-> IF Clustered(i) >= 0 THEN "NEAR_DUPLICATE"
                             ELSE results[i].finalStatus,
             globalMatchId |-> results[i].globalMatchId,
             globalScore |-> results[i].globalScore,
             localScore |-> results[i].localScore,
             localDuplicateOf |-> results[i].localDuplicateOf,
             clusteredWith |-> Clustered(i)]]

----------------------------------------------------------------------------
(* Submit-batch route and processBatch *)

\* what the text of one submitted entry is: a complaint, a text shorter than
\* 30 characters, or a header line (both skipped by the flatten loop)
EntryKinds == {"complaint", "short", "header"}

SeqsUpTo(S, n) == UNION {[1..k -> S] : k \in 0..n}

RECURSIVE TotalEntries(_)
TotalEntries(pdfs) ==
    IF pdfs = <<>> THEN 0 ELSE Len(Head(pdfs)) + TotalEntries(Tail(pdfs))

\* the bodies the route accepts: 1..MaxPdfs PDF files with their entries
BatchInputs ==
    { pdfs \in SeqsUpTo(SeqsUpTo(EntryKinds, MaxEntries), MaxPdfs) :
        Len(pdfs) >= 1 /\ TotalEntries(pdfs) <= MaxEntries }

\* STEP 1 of processBatch: the entries kept, in PDF order, with their PDF
RECURSIVE Flatten(_, _)
Flatten(pdfs, k) ==
    IF k > Len(pdfs) THEN <<>>
    ELSE [i \in 1..Cardinality({j \in 1..Len(pdfs[k]) : pdfs[k][j] = "complaint"})
            |-> [pdfId |-> k]]
         \o Flatten(pdfs, k + 1)

NoValidGrievances == "No valid grievances found in the uploaded PDFs"
EmbeddingsFailed == "Failed to generate embeddings - check API token"
DatabaseError == "D1 error"

\* INSERT INTO processing_batches (user_id, batch_status, total_pdfs)
NewBatch(npdfs) ==
    [batch_status |-> "pending", total_pdfs |-> npdfs, processed_pdfs |-> 0,
     total_grievances |-> 0, unique_count |-> 0, duplicate_count |-> 0,
     near_duplicate_count |-> 0, error_message |-> ""]

NewTask(pdfs, started) ==
    [pc |-> IF started THEN "queued" ELSE "aborted",
     pdfEntries |-> pdfs, allGrievances |-> <<>>, customUrl |-> FALSE,
     embedding |-> NoCall, results |-> <<>>, savedResults |-> <<>>, error |-> ""]

\* POST /api/grievances/submit-batch for an authenticated user and files that
\* pass the checks, once the batch row is inserted.  uploaded: every R2 put
\* and every INSERT INTO pdf_uploads succeeded, so processBatch is handed to
\* ctx.waitUntil; otherwise the route's catch answers 500 and nothing more runs.
SubmitBatch(pdfs, uploaded) ==
    /\ Len(batches) < MaxBatches
    /\ batches' = Append(batches, NewBatch(Len(pdfs)))
    /\ task' = Append(task, NewTask(pdfs, uploaded))
    /\ UNCHANGED <<detail, thresholds, feedback_logs, grievances, nFeedback, lastRequest, run>>

Throw(b, message) == [task EXCEPT ![b].pc = "catch", ![b].error = message]

\* processBatch: UPDATE ... SET batch_status = 'processing', then the flatten
\* loop up to the first fetch of the embedding call.  customUrl: whether
\* env.EMBEDDING_SERVER_URL is set.
StartProcessing(b, ok, customUrl) ==
    /\ task[b].pc = "queued"
    /\ LET all == Flatten(task[b].pdfEntries, 1)
       IN  IF ~ok
           THEN /\ task' = Throw(b, DatabaseError)
                /\ UNCHANGED batches
           ELSE /\ batches' = [batches EXCEPT ![b].batch_status = "processing",
                                              ![b].total_pdfs = Len(task[b].pdfEntries)]
                /\ task' = IF all = <<>>
                           THEN Throw(b, NoValidGrievances)
                           ELSE [task EXCEPT ![b].pc = "embed",
                                             ![b].allGrievances = all,
                                             ![b].customUrl = customUrl]
    /\ UNCHANGED <<detail, thresholds, feedback_logs, grievances, nFeedback, lastRequest, run>>

\* STEP 2: generateBatchEmbeddingsOptimized, all of its requests
GenerateEmbeddings(b) ==
    /\ task[b].pc = "embed"
    /\ \E customOut \in Responses(Len(task[b].allGrievances)),
          outs \in [1..MAX_RETRIES -> Responses(Len(task[b].allGrievances))] :
          LET res == generateBatchEmbeddings(Len(task[b].allGrievances),
                                             task[b].customUrl, customOut, outs)
          IN  task' = IF res.result = "returned"
                      THEN [task EXCEPT ![b].pc = "pool", ![b].embedding = res]
                      ELSE [task EXCEPT ![b].pc = "catch", ![b].embedding = res,
                                        ![b].error = EmbeddingsFailed]
    /\ UNCHANGED <<detail, thresholds, feedback_logs, grievances, batches, nFeedback,
                   lastRequest, run>>

\* getExistingEmbeddings: processed grievances joined with their embeddings
ExistingEmbeddings ==
    {g \in DOMAIN grievances : grievances[g].has_embedding}

\* STEP 3: the historical pool is read (or the SELECT throws)
FetchExisting(b, ok) ==
    /\ task[b].pc = "pool"
    /\ task' = IF ok THEN [task EXCEPT ![b].pc = "thresholds",
                                       ![b].results = IF ExistingEmbeddings = {}
                                                      THEN <<"empty">> ELSE <<"pool">>]
               ELSE Throw(b, DatabaseError)
    /\ UNCHANGED <<detail, thresholds, feedback_logs, grievances, batches, nFeedback,
                   lastRequest, run>>

\* STEPS 4-6: the thresholds are read (the read never throws), then
\* hierarchicalDeduplication and applyDBSCANClustering run without a pause
Deduplicate(b, readOk) ==
    /\ task[b].pc = "thresholds"
    /\ LET thr == getAdaptiveThresholds(thresholds, readOk)
           poolEmpty == task[b].results = <<"empty">>
       IN  \E sim \in SimilarityInputs(task[b].allGrievances, poolEmpty) :
              task' = [task EXCEPT
                  ![b].pc = "saveGrievance",
                  ![b].results = Classify(task[b].allGrievances, sim, poolEmpty, thr)]
    /\ UNCHANGED <<detail, thresholds, feedback_logs, grievances, batches, nFeedback,
                   lastRequest, run>>

\* STEP 7, saveGrievancesToDB: INSERT INTO grievances for the next result
SaveGrievance(b, ok) ==
    /\ task[b].pc = "saveGrievance"
    /\ LET i == Len(task[b].savedResults) + 1
       IN  IF ok
           THEN /\ grievances' = Append(grievances,
                      [batch_id |-> b, duplicate_status |-> task[b].results[i],
                       has_embedding |-> FALSE])
                /\ task' = [task EXCEPT ![b].pc = "saveEmbedding"]
           ELSE /\ task' = Throw(b, DatabaseError)
                /\ UNCHANGED grievances
    /\ UNCHANGED <<detail, thresholds, feedback_logs, batches, nFeedback, lastRequest, run>>

\* STEP 7: INSERT INTO embeddings for the row just inserted, then the result
\* is pushed to savedResults
SaveEmbedding(b, ok) ==
    /\ task[b].pc = "saveEmbedding"
    /\ LET i == Len(task[b].savedResults) + 1
           id == Len(grievances)
       IN  IF ok
           THEN /\ grievances' = [grievances EXCEPT ![id].has_embedding = TRUE]
                /\ task' = [task EXCEPT
                      ![b].savedResults = Append(@, [id |-> id,
                                                     status |-> task[b].results[i]]),
                      ![b].pc = IF i = Len(task[b].results) THEN "clusters"
                                ELSE "saveGrievance"]
           ELSE /\ task' = Throw(b, DatabaseError)
                /\ UNCHANGED grievances
    /\ UNCHANGED <<detail, thresholds, feedback_logs, batches, nFeedback, lastRequest, run>>

\* STEP 8, formDuplicateClusters: every database error is caught inside
FormClusters(b) ==
    /\ task[b].pc = "clusters"
    /\ task' = [task EXCEPT ![b].pc = "complete"]
    /\ UNCHANGED <<detail, thresholds, feedback_logs, grievances, batches, nFeedback,
                   lastRequest, run>>

\* the final UPDATE ... SET batch_status = 'completed' with the counters
CompletedRow(row, npdfs, savedResults) ==
    LET stats == calculateBatchStats(savedResults)
    IN  [row EXCEPT !.batch_status = "completed",
                    !.processed_pdfs = npdfs,
                    !.total_grievances = Len(savedResults),
                    !.unique_count = stats.unique,
                    !.duplicate_count = stats.duplicate,
                    !.near_duplicate_count = stats.nearDuplicate]

CompleteBatch(b, ok) ==
    /\ task[b].pc = "complete"
    /\ IF ok
       THEN /\ batches' = [batches EXCEPT ![b] =
                  CompletedRow(@, Len(task[b].pdfEntries), task[b].savedResults)]
            /\ task' = [task EXCEPT ![b].pc = "done"]
       ELSE /\ task' = Throw(b, DatabaseError)
            /\ UNCHANGED batches
    /\ UNCHANGED <<detail, thresholds, feedback_logs, grievances, nFeedback, lastRequest, run>>

\* the catch block: UPDATE ... SET batch_status = 'failed', error_message = ?
FailedRow(row, message) ==
    [row EXCEPT !.batch_status = "failed", !.error_message = message]

\* the catch block's UPDATE, then the rethrow that ctx.waitUntil's catch logs;
\* when the UPDATE itself throws, the rejection is logged the same way
CatchError(b, ok) ==
    /\ task[b].pc = "catch"
    /\ batches' = IF ok THEN [batches EXCEPT ![b] = FailedRow(@, task[b].error)]
                  ELSE batches
    /\ task' = [task EXCEPT ![b].pc = "done"]
    /\ UNCHANGED <<detail, thresholds, feedback_logs, grievances, nFeedback, lastRequest, run>>

\* an admin's correction of a stored grievance while batches run; the
\* handler's statements succeed (SpecFeedbackFaulty explores their failures)
Correction ==
    /\ nFeedback < MaxCorrections
    /\ \E gid \in DOMAIN grievances, orig \in Status, corr \in Status :
            Feedback(gid, orig, corr, TRUE, "none")

Init ==
    /\ InitStore
    /\ grievances \in {<<>>, <<StoredGrievance>>}
    /\ batches = <<>>
    /\ task = <<>>

Next ==
    \/ \E pdfs \in BatchInputs, uploaded \in BOOLEAN : SubmitBatch(pdfs, uploaded)
    \/ \E b \in DOMAIN task, ok \in BOOLEAN, customUrl \in BOOLEAN :
          StartProcessing(b, ok, customUrl)
    \/ \E b \in DOMAIN task : GenerateEmbeddings(b)
    \/ \E b \in DOMAIN task, ok \in BOOLEAN : FetchExisting(b, ok)
    \/ \E b \in DOMAIN task, readOk \in BOOLEAN : Deduplicate(b, readOk)
    \/ \E b \in DOMAIN task, ok \in BOOLEAN : SaveGrievance(b, ok)
    \/ \E b \in DOMAIN task, ok \in BOOLEAN : SaveEmbedding(b, ok)
    \/ \E b \in DOMAIN task : FormClusters(b)
    \/ \E b \in DOMAIN task, ok \in BOOLEAN : CompleteBatch(b, ok)
    \/ \E b \in DOMAIN task, ok \in BOOLEAN : CatchError(b, ok)
    \/ Correction

Spec == Init /\ [][Next]_vars

----------------------------------------------------------------------------
(* One batch followed through classification, persistence and clusters *)

\* a row of table grievances with the columns the classification side uses;
\* a deleted row keeps its place so that the index stays the id
GrievanceRow(batchId, g, status, matched, score, source) ==
    [batch_id |-> batchId, duplicate_status |-> status, has_embedding |-> source # "none",
     matched_grievance_id |-> matched, similarity_score |-> score,
     category |-> g.category, area |-> g.area, page_number |-> g.pageNumber,
     vector_source |-> source, local_duplicate_of |-> NullId, deleted |-> FALSE]

DeletedRow(row) ==
    [row EXCEPT !.deleted = TRUE, !.has_embedding = FALSE, !.vector_source = "none"]

\* what the request of generateEmbedding comes back with
\*   "array":    2xx with a JSON array, returned as the vector
\*   "notarray": 2xx with another body: the throw is caught
\*   "non2xx":   a response that is not ok
\*   "neterr":   fetch throws
SingleOutcomes == {"array", "notarray", "non2xx", "neterr"}

\* generateEmbedding(text, hfToken): where the returned vector comes from;
\* every failure returns generateFallbackEmbedding(text)
generateEmbedding(outcome) == IF outcome = "array" THEN "model" ELSE "synthetic"

\* the kinds of grievance entries: category and area
ItemKinds ==
    {[category |-> "WATER", area |-> "north"],
     [category |-> "ELECTRICITY", area |-> "north"],
     [category |-> "WATER", area |-> "south"],
     [category |-> "OTHER", area |-> ""]}

\* the kinds of the grievances submitted one by one
SingleKinds ==
    {[category |-> "WATER", area |-> "north"], [category |-> "OTHER", area |-> ""]}

\* processGrievance for a submission made while no grievance is stored: the
\* SELECT finds nothing, so the status is UNIQUE with no match; then the
\* INSERT INTO grievances succeeds and the INSERT INTO embeddings succeeds
\* (embedded) or throws
processGrievance(kind, outcome, embedded) ==
    /\ job.pc = "idle"
    /\ grievances = <<>>
    /\ grievances' =
         <<GrievanceRow(0, [category |-> kind.category, area |-> kind.area,
                            pageNumber |-> 0],
                        "UNIQUE", NullId, 0,
                        IF embedded THEN generateEmbedding(outcome) ELSE "none")>>
    /\ UNCHANGED <<thresholds, feedback_logs, batches, task, nFeedback, lastRequest,
                   run, call, job, duplicate_clusters, cluster_members>>

\* getExistingEmbeddings: the rows with an embedding, newest first
RECURSIVE ExistingPool(_, _)
ExistingPool(table, id) ==
    IF id = 0 THEN <<>>
    ELSE (IF table[id].has_embedding
          THEN <<[id |-> id, vector_source |-> table[id].vector_source]>> ELSE <<>>)
         \o ExistingPool(table, id - 1)

\* the batches the route hands to processBatch: 1..MaxItems valid entries in
\* PDF order, each with its page
ItemsOf(n) ==
    { items \in [1..n -> [pdfId : 1..MaxPdfs, pageNumber : 1..MaxPage,
                          category : Categories, area : Areas]] :
        /\ items[1].pdfId = 1
        /\ \A i \in 1..n :
              [category |-> items[i].category, area |-> items[i].area] \in ItemKinds
        /\ \A i \in 2..n :
              \/ items[i].pdfId = items[i - 1].pdfId
                   /\ items[i].pageNumber >= items[i - 1].pageNumber
              \/ items[i].pdfId = items[i - 1].pdfId + 1 }

PairIndex(n) == {p \in (1..n) \X (1..n) : p[1] < p[2]}

\* the inputs of a classification of n items against the pool
InputsOf(n, pool) ==
    { [items |-> items, pairs |-> pairs,
       hist |-> [h \in 1..Len(pool) |->
                    [id |-> pool[h].id, vector_source |-> pool[h].vector_source,
                     sims |-> sims[h]]]] :
        items \in ItemsOf(n), pairs \in [PairIndex(n) -> PairProfiles],
        sims \in [1..Len(pool) -> [1..n -> HistoricalProfiles]] }

\* processBatch from its start to STEP 6, every statement succeeding: the
\* batch row (inserted by the route) is set to processing, the pool and the
\* thresholds are read, the two classification passes run
ClassifyBatch ==
    /\ job.pc = "idle"
    /\ \E n \in 1..MaxItems :
         \E inp \in InputsOf(n, ExistingPool(grievances, Len(grievances))) :
           LET thr == getAdaptiveThresholds(thresholds, TRUE)
               hier == hierarchicalDeduplication(inp, thr)
           IN  /\ batches' = Append(batches,
                     [NewBatch(inp.items[n].pdfId) EXCEPT !.batch_status = "processing"])
               /\ job' = [pc |-> "classified", batchId |-> Len(batches) + 1,
                          inp |-> inp, thr |-> thr, hier |-> hier,
                          results |-> applyDBSCANClustering(hier, inp, thr),
                          savedResults |-> <<>>, fails |-> <<>>, deletes |-> 0]
    /\ UNCHANGED <<thresholds, feedback_logs, grievances, task, nFeedback,
                   lastRequest, run, call, duplicate_clusters, cluster_members>>

\* saveGrievancesToDB, every INSERT succeeding: one row per result, with
\* g.finalStatus, g.globalScore || g.localScore || 0 and g.globalMatchId || null
SavedScore(r) == OrElse(r.globalScore, OrElse(r.localScore, 0))

\* g.localDuplicateOf?.id || null read by the INSERT of item i: the id that
\* the INSERT of the referenced earlier item assigned to it
LocalDuplicateOfIndex(localDuplicateOf, firstId) ==
    IF localDuplicateOf = 0 THEN NullId ELSE RealId(localDuplicateOf)

LocalDuplicateOfId(localDuplicateOf, firstId) ==
    IF localDuplicateOf = 0 THEN NullId ELSE RealId(firstId + localDuplicateOf - 1)

savedResultsOf(results, firstId) ==
    [i \in 1..Len(results) |->
        [id |-> firstId + i - 1, status |-> results[i].finalStatus,
         score |-> SavedScore(results[i]), matchedId |-> results[i].globalMatchId]]

saveGrievancesToDB ==
    /\ job.pc = "classified"
    /\ grievances' = grievances \o
         [i \in 1..Len(job.results) |->
             [GrievanceRow(job.batchId, job.inp.items[i], job.results[i].finalStatus,
                           job.results[i].globalMatchId, SavedScore(job.results[i]),
                           "model")
                EXCEPT !.local_duplicate_of =
                    LocalDuplicateOfId(job.results[i].localDuplicateOf,
                                       Len(grievances) + 1)]]
    /\ job' = [job EXCEPT !.pc = "saved",
                          !.savedResults = savedResultsOf(job.results, Len(grievances) + 1)]
    /\ UNCHANGED <<thresholds, feedback_logs, batches, task, nFeedback, lastRequest,
                   run, call, duplicate_clusters, cluster_members>>

\* lines 651-679 of formDuplicateClusters: the results that enter a cluster
\* and the key of their cluster (the matched id, or the result's own id when
\* the matched id is null)
EntersCluster(r) ==
    /\ r.status \in {"DUPLICATE", "NEAR_DUPLICATE"}
    /\ r.matchedId[1] # "batch"

ClusterKey(r) == IF r.matchedId = NullId THEN r.id ELSE r.matchedId[2]

ClusterKeys(results) ==
    {ClusterKey(results[i]) : i \in {k \in 1..Len(results) : EntersCluster(results[k])}}

\* the members of the cluster of a key, in the order of the results
MembersOf(results, key) ==
    LET InCluster(r) == EntersCluster(r) /\ ClusterKey(r) = key
    IN  SelectSeq(results, InCluster)

\* lines 693-711 for one cluster: the INSERT INTO duplicate_clusters, then one
\* INSERT INTO cluster_members per member; failAt = 0: the first INSERT
\* throws, failAt = k: the INSERT of member k throws, otherwise none does
ClusterRow(batchId, key, members) ==
    [batch_id |-> batchId, cluster_type |-> members[1].status,
     primary_grievance_id |-> key, member_count |-> Len(members)]

MemberRows(clusterId, members, failAt) ==
    {[cluster_id |-> clusterId, grievance_id |-> members[k].id,
      similarity_to_primary |-> members[k].score] :
        k \in {x \in 1..Len(members) : x < failAt}}

\* variant: the first error leaves the loop
RECURSIVE SaveClustersUntilError(_, _, _, _, _)
SaveClustersUntilError(keys, results, batchId, fails, tables) ==
    IF keys = <<>> THEN tables
    ELSE LET key == Head(keys)
             members == MembersOf(results, key)
             clusterId == Len(tables.clusters) + 1
             saved == IF fails[key] = 0 THEN tables
                      ELSE [clusters |-> Append(tables.clusters,
                                                ClusterRow(batchId, key, members)),
                            members |-> tables.members
                                    \cup MemberRows(clusterId, members, fails[key])]
         IN  IF fails[key] <= Len(members) THEN saved
             ELSE SaveClustersUntilError(Tail(keys), results, batchId, fails, saved)

\* the loop over the clusters in key order; fails gives failAt per key
RECURSIVE SaveClusters(_, _, _, _, _)
SaveClusters(keys, results, batchId, fails, tables) ==
    IF keys = <<>> THEN tables
    ELSE LET key == Head(keys)
             members == MembersOf(results, key)
             clusterId == Len(tables.clusters) + 1
         IN  SaveClusters(Tail(keys), results, batchId, fails,
                IF fails[key] = 0 THEN tables
                ELSE [clusters |-> Append(tables.clusters,
                                          ClusterRow(batchId, key, members)),
                      members |-> tables.members
                                    \cup MemberRows(clusterId, members, fails[key])])

\* the failure patterns of formDuplicateClusters for these results
FailPatterns(results) ==
    { fails \in [ClusterKeys(results) -> 0..(MaxItems + 1)] :
        \A key \in ClusterKeys(results) :
            fails[key] <= Len(MembersOf(results, key)) + 1 }

\* STEP 8, formDuplicateClusters(savedResults, batchId, env): it never throws
formDuplicateClusters ==
    /\ job.pc = "saved"
    /\ \E fails \in FailPatterns(job.savedResults) :
         LET tables == SaveClusters(SetToSeq(ClusterKeys(job.savedResults)),
                                    job.savedResults, job.batchId, fails,
                                    [clusters |-> duplicate_clusters,
                                     members |-> cluster_members])
         IN  /\ duplicate_clusters' = tables.clusters
             /\ cluster_members' = tables.members
             /\ job' = [job EXCEPT !.pc = "clustered", !.fails = fails]
    /\ UNCHANGED <<thresholds, feedback_logs, grievances, batches, task, nFeedback,
                   lastRequest, run, call>>

\* the final UPDATE of processBatch, succeeding
CompleteJob ==
    /\ job.pc = "clustered"
    /\ batches' = [batches EXCEPT ![job.batchId] =
                      CompletedRow(@, job.inp.items[Len(job.inp.items)].pdfId,
                                   job.savedResults)]
    /\ job' = [job EXCEPT !.pc = "done"]
    /\ UNCHANGED <<thresholds, feedback_logs, grievances, task, nFeedback,
                   lastRequest, run, call, duplicate_clusters, cluster_members>>

\* DELETE /api/areas/:name for the user who owns the rows.  failAt names the
\* statement that throws: the DELETE FROM embeddings, the DELETE FROM
\* grievances, or none; the statements before it have taken effect
AreaIds(table, name) ==
    {id \in DOMAIN table : ~table[id].deleted /\ table[id].area = name}

DeleteArea(name, failAt) ==
    LET ids == AreaIds(grievances, name)
        Cleared(row, id) ==
            IF id \in ids \/ (row.matched_grievance_id[1] = "id"
                               /\ row.matched_grievance_id[2] \in ids)
            THEN [row EXCEPT !.matched_grievance_id = NullId] ELSE row
        WithoutEmbedding(row, id) ==
            IF id \in ids /\ failAt # "embeddings"
            THEN [row EXCEPT !.has_embedding = FALSE, !.vector_source = "none"]
            ELSE row
        Removed(row, id) == IF id \in ids /\ failAt = "none" THEN DeletedRow(row) ELSE row
    IN  /\ job.pc \in {"clustered", "done"}
        /\ job.deletes < MaxDeletes
        /\ ids # {}
        /\ grievances' = [id \in DOMAIN grievances |->
                             Removed(WithoutEmbedding(Cleared(grievances[id], id), id), id)]
        /\ cluster_members' = {m \in cluster_members : m.grievance_id \notin ids}
        /\ job' = [job EXCEPT !.deletes = @ + 1]
        /\ UNCHANGED <<thresholds, feedback_logs, batches, task, nFeedback,
                       lastRequest, run, call, duplicate_clusters>>

InitDedup ==
    /\ InitStore
    /\ grievances = <<>>
    /\ batches = <<>>
    /\ task = <<>>

NextDedup ==
    \/ \E kind \in SingleKinds, outcome \in SingleOutcomes, embedded \in BOOLEAN :
          processGrievance(kind, outcome, embedded)
    \/ ClassifyBatch
    \/ saveGrievancesToDB
    \/ formDuplicateClusters
    \/ CompleteJob
    \/ \E name \in Areas \ {""}, failAt \in {"none", "embeddings", "grievances"} :
          DeleteArea(name, failAt)

\* single submissions, then one batch through its classification, its rows
\* and its clusters, and deletions of areas
SpecDedup == InitDedup /\ [][NextDedup]_vars

----------------------------------------------------------------------------
(* A batch running while feedback is written *)

\* processBatch lines 26-34: the batch row is set to processing; atStart
\* records the threshold table as it is stored at that moment
StartJob ==
    /\ job.pc = "idle"
    /\ batches' = Append(batches, [NewBatch(1) EXCEPT !.batch_status = "processing"])
    /\ job' = [pc |-> "processing", batchId |-> Len(batches) + 1, atStart |-> thresholds]
    /\ UNCHANGED <<thresholds, feedback_logs, grievances, task, nFeedback,
                   lastRequest, run, call, duplicate_clusters, cluster_members>>

\* processBatch STEPS 4 to 6 (lines 111-125) for the batch that was started,
\* the steps before them succeeding: the thresholds are read, then the
\* classification passes run with the map that was read
ClassifyStarted ==
    /\ job.pc = "processing"
    /\ \E n \in 1..MaxItems :
         \E inp \in InputsOf(n, ExistingPool(grievances, Len(grievances))) :
           LET thr == getAdaptiveThresholds(thresholds, TRUE)
               hier == hierarchicalDeduplication(inp, thr)
           IN  job' = [pc |-> "classified", batchId |-> job.batchId,
                       atStart |-> job.atStart, inp |-> inp, thr |-> thr, hier |-> hier,
                       results |-> applyDBSCANClustering(hier, inp, thr)]
    /\ UNCHANGED <<thresholds, feedback_logs, grievances, batches, task, nFeedback,
                   lastRequest, run, call, duplicate_clusters, cluster_members>>

\* one grievance stored without an embedding before the batch, for the
\* feedback requests to name
InitSnapshot ==
    /\ InitStore
    /\ grievances = <<GrievanceRow(0, [category |-> "OTHER", area |-> "", pageNumber |-> 0],
                                   "UNIQUE", NullId, 0, "none")>>
    /\ batches = <<>>
    /\ task = <<>>

NextSnapshot ==
    \/ StartJob
    \/ ClassifyStarted
    \/ Correction

\* one batch and the feedback requests handled while it runs
SpecSnapshot == InitSnapshot /\ [][NextSnapshot]_vars

----------------------------------------------------------------------------
(* The weighted score under stored weights *)

WeightTypes == {"cosine_weight", "jaccard_weight", "ngram_weight", "metadata_weight"}

\* the threshold tables whose weights are stored at the lower end, at the
\* seeded value or at the upper end of their declared ranges
WeightValues(t) ==
    {SeedThresholds[t].min_value, SeedThresholds[t].current_value,
     SeedThresholds[t].max_value}

WeightStores ==
    { [t \in ThresholdTypes |->
          IF t \in WeightTypes THEN [SeedThresholds[t] EXCEPT !.current_value = w[t]]
          ELSE SeedThresholds[t]] :
        w \in { w \in [WeightTypes -> UNION {WeightValues(t) : t \in WeightTypes}] :
                  \A t \in WeightTypes : w[t] \in WeightValues(t) } }

\* one comparison scored with the weights that getAdaptiveThresholds reads
ScorePair ==
    /\ call.pc = "idle"
    /\ \E pr \in PairProfiles :
          LET thr == getAdaptiveThresholds(thresholds, TRUE)
          IN  call' = [pc |-> "scored", pr |-> pr, thr |-> thr,
                       score |-> calculateAdaptiveWeightedScore(pr, thr)]
    /\ UNCHANGED <<thresholds, feedback_logs, grievances, batches, task, nFeedback,
                   lastRequest, run, job, duplicate_clusters, cluster_members>>

InitWeights ==
    /\ thresholds \in WeightStores
    /\ feedback_logs = EmptyBag
    /\ nFeedback = 0
    /\ lastRequest = [grievance_id |-> 0, original_status |-> "none",
                      corrected_status |-> "none"]
    /\ run = [v0 |-> SeedThresholds["duplicate"].current_value, adj0 |-> 0, n |-> 0]
    /\ call = [pc |-> "idle"]
    /\ job = [pc |-> "idle"]
    /\ duplicate_clusters = <<>>
    /\ cluster_members = {}
    /\ grievances = <<>>
    /\ batches = <<>>
    /\ task = <<>>

SpecWeights == InitWeights /\ [][ScorePair]_vars

----------------------------------------------------------------------------
(* Feedback handlers running at the same time *)

\* the (original, corrected) pairs the chain of updateThresholdsFromFeedback lists
ListedTransitions ==
    {tr \in Status \X Status : ThresholdToAdjust(tr[1], tr[2]) # "none"}

\* MaxHandlers requests for the same transition arrive; each handler is at
\* its first statement
ReceiveRequests ==
    /\ call.pc = "idle"
    /\ \E tr \in ListedTransitions :
          call' = [pc |-> "handlers", originalStatus |-> tr[1], correctedStatus |-> tr[2],
                   handler |-> [h \in 1..MaxHandlers |->
                                   [pc |-> "log", currentValue |-> 0,
                                    minVal |-> 0, maxVal |-> 0]]]
    /\ UNCHANGED <<thresholds, feedback_logs, grievances, batches, task, nFeedback,
                   lastRequest, run, job, duplicate_clusters, cluster_members>>

\* logFeedback: INSERT INTO feedback_logs
HandlerLog(h) ==
    /\ call.pc = "handlers"
    /\ call.handler[h].pc = "log"
    /\ feedback_logs' = logFeedback(feedback_logs, 1, call.originalStatus,
                                    call.correctedStatus)
    /\ call' = [call EXCEPT !.handler[h].pc = "read"]
    /\ UNCHANGED <<thresholds, grievances, batches, task, nFeedback, lastRequest, run,
                   job, duplicate_clusters, cluster_members>>

\* updateThresholdsFromFeedback line 60: the SELECT of getAdaptiveThresholds
HandlerRead(h) ==
    /\ call.pc = "handlers"
    /\ call.handler[h].pc = "read"
    /\ call' = [call EXCEPT
          !.handler[h].pc = "bounds",
          !.handler[h].currentValue =
              getAdaptiveThresholds(thresholds, TRUE)[
                  ThresholdToAdjust(call.originalStatus, call.correctedStatus)]]
    /\ UNCHANGED <<thresholds, feedback_logs, grievances, batches, task, nFeedback,
                   lastRequest, run, job, duplicate_clusters, cluster_members>>

\* lines 95-102: the SELECT of min_value and max_value
HandlerBounds(h) ==
    /\ call.pc = "handlers"
    /\ call.handler[h].pc = "bounds"
    /\ LET row == thresholds[ThresholdToAdjust(call.originalStatus, call.correctedStatus)]
       IN  call' = [call EXCEPT !.handler[h].pc = "update",
                                !.handler[h].minVal = MinVal(row),
                                !.handler[h].maxVal = MaxVal(row)]
    /\ UNCHANGED <<thresholds, feedback_logs, grievances, batches, task, nFeedback,
                   lastRequest, run, job, duplicate_clusters, cluster_members>>

\* lines 105-114: newValue from the value read before, then the UPDATE
HandlerUpdate(h) ==
    /\ call.pc = "handlers"
    /\ call.handler[h].pc = "update"
    /\ LET kind == ThresholdToAdjust(call.originalStatus, call.correctedStatus)
           newValue == NewValue(call.handler[h].currentValue,
                                Adjustment(call.originalStatus, call.correctedStatus),
                                call.handler[h].minVal, call.handler[h].maxVal)
       IN  thresholds' = [thresholds EXCEPT ![kind] = UpdateRow(@, newValue)]
    /\ call' = [call EXCEPT !.handler[h].pc = "status"]
    /\ UNCHANGED <<feedback_logs, grievances, batches, task, nFeedback, lastRequest, run,
                   job, duplicate_clusters, cluster_members>>

\* the route's UPDATE grievances SET duplicate_status, then the response
HandlerStatus(h) ==
    /\ call.pc = "handlers"
    /\ call.handler[h].pc = "status"
    /\ grievances' = SetDuplicateStatus(grievances, 1, call.correctedStatus)
    /\ call' = [call EXCEPT !.handler[h].pc = "done"]
    /\ UNCHANGED <<thresholds, feedback_logs, batches, task, nFeedback, lastRequest, run,
                   job, duplicate_clusters, cluster_members>>

NextRace ==
    \/ ReceiveRequests
    \/ \E h \in 1..MaxHandlers :
          \/ HandlerLog(h)
          \/ HandlerRead(h)
          \/ HandlerBounds(h)
          \/ HandlerUpdate(h)
          \/ HandlerStatus(h)

\* feedback handlers for the same transition, their statements interleaved
SpecRace == InitFeedback /\ [][NextRace]_vars

\* the table after n handlers for the transition ran one after the other
RECURSIVE OneAfterTheOther(_, _, _, _)
OneAfterTheOther(store, orig, corr, n) ==
    IF n = 0 THEN store
    ELSE OneAfterTheOther(updateThresholdsFromFeedback(store, orig, corr, TRUE),
                          orig, corr, n - 1)

----------------------------------------------------------------------------
(* dbscanCluster followed statement by statement *)

\* the cosine of two points: far apart or close
PointProfiles == {Profile(200, 0, 0, 0, 0), Profile(700, 200, 0, 1, 0)}

\* the inputs of dbscanCluster: 1..MaxPoints points and their cosines
PointInputs ==
    UNION { { [items |-> [i \in 1..n |-> [pageNumber |-> 1]], pairs |-> pairs] :
                pairs \in [PairIndex(n) -> PointProfiles] } : n \in 1..MaxPoints }

\* lines 16-24: labels filled with -1 (unvisited), clusterId 1; eps as
\* applyDBSCANClustering passes it
DbscanStart ==
    /\ call.pc = "idle"
    /\ \E inp \in PointInputs :
          call' = [pc |-> "main", inp |-> inp,
                   eps |-> 1000 - OrElse(getAdaptiveThresholds(thresholds, TRUE)[
                                             "near_duplicate"], 300),
                   labels |-> [i \in 1..Len(inp.items) |-> -1],
                   i |-> 1, clusterId |-> 1, queue |-> <<>>, clusters |-> {}]
    /\ UNCHANGED <<thresholds, feedback_logs, grievances, batches, task, nFeedback,
                   lastRequest, run, job, duplicate_clusters, cluster_members>>

\* lines 26-39: one turn of the loop over the points; a point with enough
\* neighbours starts a cluster (expandCluster lines 117-119)
DbscanMain ==
    /\ call.pc = "main"
    /\ call.i <= Len(call.inp.items)
    /\ LET i == call.i
           neighbors == regionQuery(call.inp, i, call.eps)
       IN  call' =
             IF call.labels[i] # -1 THEN [call EXCEPT !.i = i + 1]
             ELSE IF Cardinality(neighbors) < minPts
             THEN [call EXCEPT !.labels[i] = 0, !.i = i + 1]
             ELSE [call EXCEPT !.labels[i] = call.clusterId,
                               !.queue = SetToSeq(neighbors), !.pc = "expand"]
    /\ UNCHANGED <<thresholds, feedback_logs, grievances, batches, task, nFeedback,
                   lastRequest, run, job, duplicate_clusters, cluster_members>>

\* a variant of the loop of expandCluster that never adds to the queue
DbscanExpandSeedOnly ==
    /\ call.pc = "expand"
    /\ call' =
         IF call.queue = <<>>
         THEN [call EXCEPT !.pc = "main", !.i = call.i + 1,
                           !.clusterId = call.clusterId + 1]
         ELSE LET q == Head(call.queue)
                  rest == Tail(call.queue)
              IN  IF call.labels[q] = -1 \/ call.labels[q] = 0
                  THEN [call EXCEPT !.labels[q] = call.clusterId, !.queue = rest]
                  ELSE [call EXCEPT !.queue = rest]
    /\ UNCHANGED <<thresholds, feedback_logs, grievances, batches, task, nFeedback,
                   lastRequest, run, job, duplicate_clusters, cluster_members>>

\* expandCluster lines 121-143: one turn of the loop over the queue; when the
\* queue is empty the call returns and the main loop goes on (lines 37, 26)
DbscanExpand ==
    /\ call.pc = "expand"
    /\ call' =
         IF call.queue = <<>>
         THEN [call EXCEPT !.pc = "main", !.i = call.i + 1,
                           !.clusterId = call.clusterId + 1]
         ELSE LET q == Head(call.queue)
                  rest == Tail(call.queue)
                  qNeighbors == regionQuery(call.inp, q, call.eps)
                  fresh == {x \in qNeighbors : ~InQueue(rest, x)}
              IN  IF call.labels[q] = 0
                  THEN [call EXCEPT !.labels[q] = call.clusterId, !.queue = rest]
                  ELSE IF call.labels[q] # -1
                  THEN [call EXCEPT !.queue = rest]
                  ELSE [call EXCEPT
                          !.labels[q] = call.clusterId,
                          !.queue = IF Cardinality(qNeighbors) >= minPts
                                    THEN rest \o SetToSeq(fresh) ELSE rest]
    /\ UNCHANGED <<thresholds, feedback_logs, grievances, batches, task, nFeedback,
                   lastRequest, run, job, duplicate_clusters, cluster_members>>

\* lines 41-67: the points grouped by label, the groups of at least minPts
\* points returned as clusters
DbscanReturn ==
    /\ call.pc = "main"
    /\ call.i > Len(call.inp.items)
    /\ LET groups == { {p \in 1..Len(call.inp.items) : call.labels[p] = l} :
                         l \in {call.labels[p] : p \in 1..Len(call.inp.items)} \ {0} }
       IN  call' = [call EXCEPT !.pc = "returned",
                                !.clusters = {c \in groups : Cardinality(c) >= minPts}]
    /\ UNCHANGED <<thresholds, feedback_logs, grievances, batches, task, nFeedback,
                   lastRequest, run, job, duplicate_clusters, cluster_members>>

NextDbscan ==
    \/ DbscanStart
    \/ DbscanMain
    \/ DbscanExpand
    \/ DbscanReturn

InitDbscan ==
    /\ InitStore
    /\ grievances = <<>>
    /\ batches = <<>>
    /\ task = <<>>

\* one call of dbscanCluster; the call runs on until it returns
SpecDbscan == InitDbscan /\ [][NextDbscan]_vars /\ WF_vars(NextDbscan)

----------------------------------------------------------------------------
(* preprocessText *)

\* A word is a sequence of characters and a text a sequence of words (the
\* words of text.split(' ')). The texts followed here are made of lowercase
\* ASCII letters with single spaces, on which steps 1 to 7 (Unicode, case,
\* URLs, emails, phone numbers, special characters, whitespace) change
\* nothing; steps 8 and 9 are computed as the code computes them.

\* STOPWORDS
STOPWORDS ==
    {<<"i">>, <<"m", "e">>, <<"m", "y">>, <<"m", "y", "s", "e", "l", "f">>, <<"w", "e">>,
     <<"o", "u", "r">>, <<"o", "u", "r", "s">>,
     <<"o", "u", "r", "s", "e", "l", "v", "e", "s">>, <<"y", "o", "u">>,
     <<"y", "o", "u", "r">>, <<"y", "o", "u", "r", "s">>,
     <<"y", "o", "u", "r", "s", "e", "l", "f">>,
     <<"y", "o", "u", "r", "s", "e", "l", "v", "e", "s">>, <<"h", "e">>, <<"h", "i", "m">>,
     <<"h", "i", "s">>, <<"h", "i", "m", "s", "e", "l", "f">>, <<"s", "h", "e">>,
     <<"h", "e", "r">>, <<"h", "e", "r", "s">>, <<"h", "e", "r", "s", "e", "l", "f">>,
     <<"i", "t">>, <<"i", "t", "s">>, <<"i", "t", "s", "e", "l", "f">>,
     <<"t", "h", "e", "y">>, <<"t", "h", "e", "m">>, <<"t", "h", "e", "i", "r">>,
     <<"t", "h", "e", "i", "r", "s">>,
     <<"t", "h", "e", "m", "s", "e", "l", "v", "e", "s">>, <<"w", "h", "a", "t">>,
     <<"w", "h", "i", "c", "h">>, <<"w", "h", "o">>, <<"w", "h", "o", "m">>,
     <<"t", "h", "i", "s">>, <<"t", "h", "a", "t">>, <<"t", "h", "e", "s", "e">>,
     <<"t", "h", "o", "s", "e">>, <<"a", "m">>, <<"i", "s">>, <<"a", "r", "e">>,
     <<"w", "a", "s">>, <<"w", "e", "r", "e">>, <<"b", "e">>, <<"b", "e", "e", "n">>,
     <<"b", "e", "i", "n", "g">>, <<"h", "a", "v", "e">>, <<"h", "a", "s">>,
     <<"h", "a", "d">>, <<"h", "a", "v", "i", "n", "g">>, <<"d", "o">>,
     <<"d", "o", "e", "s">>, <<"d", "i", "d">>, <<"d", "o", "i", "n", "g">>, <<"a">>,
     <<"a", "n">>, <<"t", "h", "e">>, <<"a", "n", "d">>, <<"b", "u", "t">>, <<"i", "f">>,
     <<"o", "r">>, <<"b", "e", "c", "a", "u", "s", "e">>, <<"a", "s">>,
     <<"u", "n", "t", "i", "l">>, <<"w", "h", "i", "l", "e">>, <<"o", "f">>, <<"a", "t">>,
     <<"b", "y">>, <<"f", "o", "r">>, <<"w", "i", "t", "h">>, <<"a", "b", "o", "u", "t">>,
     <<"a", "g", "a", "i", "n", "s", "t">>, <<"b", "e", "t", "w", "e", "e", "n">>,
     <<"i", "n", "t", "o">>, <<"t", "h", "r", "o", "u", "g", "h">>,
     <<"d", "u", "r", "i", "n", "g">>, <<"b", "e", "f", "o", "r", "e">>,
     <<"a", "f", "t", "e", "r">>, <<"a", "b", "o", "v", "e">>, <<"b", "e", "l", "o", "w">>,
     <<"t", "o">>, <<"f", "r", "o", "m">>, <<"u", "p">>, <<"d", "o", "w", "n">>,
     <<"i", "n">>, <<"o", "u", "t">>, <<"o", "n">>, <<"o", "f", "f">>,
     <<"o", "v", "e", "r">>, <<"u", "n", "d", "e", "r">>, <<"a", "g", "a", "i", "n">>,
     <<"f", "u", "r", "t", "h", "e", "r">>, <<"t", "h", "e", "n">>, <<"o", "n", "c", "e">>,
     <<"h", "e", "r", "e">>, <<"t", "h", "e", "r", "e">>, <<"w", "h", "e", "n">>,
     <<"w", "h", "e", "r", "e">>, <<"w", "h", "y">>, <<"h", "o", "w">>, <<"a", "l", "l">>,
     <<"b", "o", "t", "h">>, <<"e", "a", "c", "h">>, <<"f", "e", "w">>,
     <<"m", "o", "r", "e">>, <<"m", "o", "s", "t">>, <<"o", "t", "h", "e", "r">>,
     <<"s", "o", "m", "e">>, <<"s", "u", "c", "h">>, <<"n", "o">>, <<"n", "o", "r">>,
     <<"n", "o", "t">>, <<"o", "n", "l", "y">>, <<"o", "w", "n">>, <<"s", "a", "m", "e">>,
     <<"s", "o">>, <<"t", "h", "a", "n">>, <<"t", "o", "o">>, <<"v", "e", "r", "y">>,
     <<"s">>, <<"t">>, <<"c", "a", "n">>, <<"w", "i", "l", "l">>, <<"j", "u", "s", "t">>,
     <<"d", "o", "n">>, <<"s", "h", "o", "u", "l", "d">>, <<"n", "o", "w">>}

\* removeStopwords(text)
removeStopwords(text) ==
    LET Kept(word) == word \notin STOPWORDS /\ Len(word) > 1
    IN  SelectSeq(text, Kept)

\* the irregulars map of lemmatizeWord, as pairs <<word, lemma>>
irregulars ==
    {
     <<<<"c", "o", "m", "p", "l", "a", "i", "n", "e", "d">>, <<"c", "o", "m", "p", "l", "a", "i", "n">>>>,
     <<<<"c", "o", "m", "p", "l", "a", "i", "n", "t", "s">>, <<"c", "o", "m", "p", "l", "a", "i", "n">>>>,
     <<<<"i", "s", "s", "u", "e", "s">>, <<"i", "s", "s", "u", "e">>>>,
     <<<<"p", "r", "o", "b", "l", "e", "m", "s">>, <<"p", "r", "o", "b", "l", "e", "m">>>>,
     <<<<"s", "e", "r", "v", "i", "c", "e", "s">>, <<"s", "e", "r", "v", "i", "c", "e">>>>,
     <<<<"p", "r", "o", "d", "u", "c", "t", "s">>, <<"p", "r", "o", "d", "u", "c", "t">>>>,
     <<<<"r", "e", "q", "u", "e", "s", "t", "s">>, <<"r", "e", "q", "u", "e", "s", "t">>>>,
     <<<<"r", "e", "s", "p", "o", "n", "s", "e", "s">>, <<"r", "e", "s", "p", "o", "n", "s", "e">>>>,
     <<<<"d", "e", "l", "a", "y", "e", "d">>, <<"d", "e", "l", "a", "y">>>>,
     <<<<"d", "e", "l", "a", "y", "s">>, <<"d", "e", "l", "a", "y">>>>,
     <<<<"r", "e", "f", "u", "n", "d", "s">>, <<"r", "e", "f", "u", "n", "d">>>>,
     <<<<"r", "e", "f", "u", "n", "d", "e", "d">>, <<"r", "e", "f", "u", "n", "d">>>>,
     <<<<"r", "e", "s", "o", "l", "v", "e", "d">>, <<"r", "e", "s", "o", "l", "v", "e">>>>,
     <<<<"r", "e", "s", "o", "l", "v", "i", "n", "g">>, <<"r", "e", "s", "o", "l", "v", "e">>>>,
     <<<<"r", "e", "c", "e", "i", "v", "e", "d">>, <<"r", "e", "c", "e", "i", "v", "e">>>>,
     <<<<"r", "e", "c", "e", "i", "v", "i", "n", "g">>, <<"r", "e", "c", "e", "i", "v", "e">>>>,
     <<<<"d", "a", "m", "a", "g", "e", "d">>, <<"d", "a", "m", "a", "g", "e">>>>,
     <<<<"d", "a", "m", "a", "g", "i", "n", "g">>, <<"d", "a", "m", "a", "g", "e">>>>,
     <<<<"c", "h", "a", "r", "g", "e", "d">>, <<"c", "h", "a", "r", "g", "e">>>>,
     <<<<"c", "h", "a", "r", "g", "e", "s">>, <<"c", "h", "a", "r", "g", "e">>>>,
     <<<<"c", "a", "n", "c", "e", "l", "l", "e", "d">>, <<"c", "a", "n", "c", "e", "l">>>>,
     <<<<"c", "a", "n", "c", "e", "l", "l", "i", "n", "g">>, <<"c", "a", "n", "c", "e", "l">>>>}

\* the suffix rules of lemmatizeWord in their order; a pattern with an
\* optional last letter is given by both its suffixes
rules ==
    <<[suffixes |-> {<<"i", "c", "a", "t", "i", "o", "n", "s">>, <<"i", "c", "a", "t", "i", "o", "n">>}, replacement |-> <<"i", "c", "a", "t", "e">>, minLen |-> 7],
      [suffixes |-> {<<"a", "t", "i", "o", "n", "a", "l">>}, replacement |-> <<"a", "t", "e">>, minLen |-> 7],
      [suffixes |-> {<<"t", "i", "o", "n", "a", "l">>}, replacement |-> <<"t", "i", "o", "n">>, minLen |-> 6],
      [suffixes |-> {<<"e", "n", "c", "i", "e", "s">>}, replacement |-> <<"e", "n", "c", "y">>, minLen |-> 6],
      [suffixes |-> {<<"a", "n", "c", "i", "e", "s">>}, replacement |-> <<"a", "n", "c", "y">>, minLen |-> 6],
      [suffixes |-> {<<"e", "m", "e", "n", "t">>}, replacement |-> <<>>, minLen |-> 6],
      [suffixes |-> {<<"m", "e", "n", "t", "s">>}, replacement |-> <<>>, minLen |-> 6],
      [suffixes |-> {<<"n", "e", "s", "s">>}, replacement |-> <<>>, minLen |-> 5],
      [suffixes |-> {<<"i", "t", "i", "e", "s">>}, replacement |-> <<"i", "t", "y">>, minLen |-> 6],
      [suffixes |-> {<<"i", "n", "g", "s">>, <<"i", "n", "g">>}, replacement |-> <<>>, minLen |-> 5],
      [suffixes |-> {<<"e", "d", "l", "y">>}, replacement |-> <<>>, minLen |-> 5],
      [suffixes |-> {<<"i", "e", "d">>}, replacement |-> <<"y">>, minLen |-> 4],
      [suffixes |-> {<<"i", "e", "s">>}, replacement |-> <<"y">>, minLen |-> 4],
      [suffixes |-> {<<"e", "d">>}, replacement |-> <<>>, minLen |-> 4],
      [suffixes |-> {<<"e", "s">>}, replacement |-> <<>>, minLen |-> 4],
      [suffixes |-> {<<"s">>}, replacement |-> <<>>, minLen |-> 3],
      [suffixes |-> {<<"t", "i", "o", "n">>}, replacement |-> <<"t", "e">>, minLen |-> 5],
      [suffixes |-> {<<"m", "e", "n", "t">>}, replacement |-> <<>>, minLen |-> 5],
      [suffixes |-> {<<"f", "u", "l">>}, replacement |-> <<>>, minLen |-> 5],
      [suffixes |-> {<<"o", "u", "s">>}, replacement |-> <<>>, minLen |-> 5],
      [suffixes |-> {<<"i", "v", "e">>}, replacement |-> <<>>, minLen |-> 5],
      [suffixes |-> {<<"i", "z", "e">>}, replacement |-> <<>>, minLen |-> 5],
      [suffixes |-> {<<"i", "s", "e">>}, replacement |-> <<>>, minLen |-> 5],
      [suffixes |-> {<<"l", "y">>}, replacement |-> <<>>, minLen |-> 4],
      [suffixes |-> {<<"e", "r">>}, replacement |-> <<>>, minLen |-> 4],
      [suffixes |-> {<<"o", "r">>}, replacement |-> <<>>, minLen |-> 4]>>

EndsWith(word, suffix) ==
    /\ Len(word) >= Len(suffix)
    /\ SubSeq(word, Len(word) - Len(suffix) + 1, Len(word)) = suffix

\* word.replace(rule.pattern, rule.replacement)
ReplaceSuffix(word, rule) ==
    LET suffix == CHOOSE s \in rule.suffixes : EndsWith(word, s)
    IN  SubSeq(word, 1, Len(word) - Len(suffix)) \o rule.replacement

RuleApplies(word, rule) ==
    Len(word) >= rule.minLen /\ \E s \in rule.suffixes : EndsWith(word, s)

\* lemmatizeWord(word): short words as they are, then the irregulars, then
\* the first rule that applies; an empty lemma gives the word back
lemmatizeWord(word) ==
    IF Len(word) <= 2 THEN word
    ELSE IF \E p \in irregulars : p[1] = word
    THEN (CHOOSE p \in irregulars : p[1] = word)[2]
    ELSE IF \E k \in 1..Len(rules) : RuleApplies(word, rules[k])
    THEN LET k == CHOOSE k \in 1..Len(rules) :
                     /\ RuleApplies(word, rules[k])
                     /\ \A x \in 1..(k - 1) : ~RuleApplies(word, rules[x])
             lemma == ReplaceSuffix(word, rules[k])
         IN  IF lemma = <<>> THEN word ELSE lemma
    ELSE word

\* simpleLemmatization(text)
simpleLemmatization(text) == [k \in 1..Len(text) |-> lemmatizeWord(text[k])]

\* preprocessText(text) on a text of lowercase words
preprocessText(text) == simpleLemmatization(removeStopwords(text))


\* the words the texts are made of
Vocabulary ==
    {<<"w", "o", "r", "k", "e", "r", "s">>, <<"r", "e", "c", "e", "i", "v", "e", "d">>,
     <<"w", "a", "t", "e", "r">>, <<"o", "t", "h", "e", "r", "s">>,
     <<"c", "o", "m", "p", "l", "a", "i", "n", "t", "s">>, <<"t", "h", "e">>,
     <<"r", "o", "a", "d">>, <<"p", "a", "y", "m", "e", "n", "t">>,
     <<"n", "o", "t", "i", "f", "i", "c", "a", "t", "i", "o", "n", "s">>, <<"i", "s">>,
     <<"s", "u", "p", "p", "l", "y">>, <<"b", "i", "l", "l", "i", "n", "g">>}

\* the texts of at most MaxWords words
Texts == UNION {[1..n -> Vocabulary] : n \in 0..MaxWords}

\* a call of preprocessText and a second call on its result
Normalize ==
    /\ call.pc = "idle"
    /\ \E text \in Texts :
          call' = [pc |-> "normalized", text |-> text,
                   once |-> preprocessText(text),
                   twice |-> preprocessText(preprocessText(text))]
    /\ UNCHANGED <<thresholds, feedback_logs, grievances, batches, task, nFeedback,
                   lastRequest, run, job, duplicate_clusters, cluster_members>>

InitNormalize ==
    /\ InitStore
    /\ batches = <<>>
    /\ task = <<>>
    /\ grievances = <<>>

SpecNormalize == InitNormalize /\ [][Normalize]_vars

----------------------------------------------------------------------------
(* The entry filter of processBatch and isValidGrievance *)

\* What the two filters read of an entry's trimmed text: how it starts (or,
\* for "dashes" and "month year", what the whole text is), whether it has at
\* least 30 characters, whether it contains a complaint keyword, whether it
\* has at least 10 whitespace-separated tokens.
Starts ==
    {"grievance collection", "batch ", "municipal corporation", "ward ", "date:",
     "dashes", "month year", "submitted by:", "page N", "total grievances", "other"}

EntryTexts ==
    { t \in [start : Starts, chars30 : BOOLEAN, keyword : BOOLEAN, words10 : BOOLEAN] :
        /\ t.start = "dashes" => ~t.keyword /\ ~t.words10
        /\ t.start = "month year" => ~t.chars30 /\ ~t.keyword /\ ~t.words10 }

\* STEP 1 of processBatch: the test an entry passes to enter allGrievances
KeptByProcessBatch(text) ==
    /\ text.chars30
    /\ text.start \notin {"grievance collection", "batch ", "municipal corporation",
                          "ward ", "date:", "dashes", "month year"}

\* headerPatterns of isValidGrievance (its two month patterns match a whole
\* text of a month and a year, which is shorter than 30 characters)
headerPatterns ==
    {"grievance collection", "batch ", "municipal corporation", "ward ", "date:",
     "dashes", "month year", "submitted by:", "page N", "total grievances"}

\* isValidGrievance(text)
isValidGrievance(text) ==
    /\ text.chars30
    /\ text.start \notin headerPatterns
    /\ text.keyword /\ text.words10

\* STEP 1 of processBatch on the entries of a batch: the entries that go on
\* to the embedding, classification and INSERT steps
FilterEntries ==
    /\ call.pc = "idle"
    /\ \E entries \in SeqsUpTo(EntryTexts, MaxEntries) :
          call' = [pc |-> "filtered", entries |-> entries,
                   allGrievances |-> SelectSeq(entries, KeptByProcessBatch)]
    /\ UNCHANGED <<thresholds, feedback_logs, grievances, batches, task, nFeedback,
                   lastRequest, run, job, duplicate_clusters, cluster_members>>

InitFilter ==
    /\ InitStore
    /\ grievances = <<>>
    /\ batches = <<>>
    /\ task = <<>>

SpecFilter == InitFilter /\ [][FilterEntries]_vars

----------------------------------------------------------------------------
(* Properties of the batch lifecycle *)

Terminal == {"completed", "failed"}

AllowedEdges ==
    {<<"pending", "processing">>, <<"processing", "completed">>,
     <<"processing", "failed">>}

\* C1: batch_status moves only along pending -> processing,
\* processing -> completed and processing -> failed; completed and failed are
\* entered only from processing and never left, whatever step fails.
C1_StatusTransitions ==
    [][\A b \in DOMAIN batches :
          batches'[b].batch_status # batches[b].batch_status
            => <<batches[b].batch_status, batches'[b].batch_status>> \in AllowedEdges]_vars

\* C2: every created batch reaches completed or failed: once nothing more
\* runs for a batch (its submission was aborted, or processBatch has settled),
\* its status is terminal, whichever statement failed.
C2_EventuallyTerminal ==
    \A b \in DOMAIN batches :
        task[b].pc \in {"aborted", "done"} => batches[b].batch_status \in Terminal

\* C3: whenever a batch is completed, unique_count + duplicate_count +
\* near_duplicate_count = total_grievances.
C3_CounterCoherence ==
    \A b \in DOMAIN batches :
        batches[b].batch_status = "completed"
          => batches[b].unique_count + batches[b].duplicate_count
               + batches[b].near_duplicate_count = batches[b].total_grievances

\* C3 witness: a completed batch of two grievances, one of them counted as a
\* near duplicate.
C3_Witness ==
    \E b \in DOMAIN batches :
        /\ batches[b].batch_status = "completed"
        /\ batches[b].total_grievances = 2
        /\ batches[b].near_duplicate_count = 1

Persisted(b, st) ==
    Cardinality({g \in DOMAIN grievances :
                    grievances[g].batch_id = b /\ grievances[g].duplicate_status = st})

\* C4: in every state where a batch is completed or failed, its three counters
\* equal the numbers of persisted grievances of that batch with status UNIQUE,
\* DUPLICATE and NEAR_DUPLICATE.
C4_CountersMatchPersisted ==
    \A b \in DOMAIN batches :
        batches[b].batch_status \in Terminal
          => /\ batches[b].unique_count = Persisted(b, "UNIQUE")
             /\ batches[b].duplicate_count = Persisted(b, "DUPLICATE")
             /\ batches[b].near_duplicate_count = Persisted(b, "NEAR_DUPLICATE")

\* C10: an embedding call sends at most one request to the custom endpoint and
\* at most 3 to the fallback endpoint; when every attempt fails the call
\* throws, and once processBatch has settled the batch is failed with an error
\* message and no grievance of the batch is persisted.
C10_EmbeddingFailure ==
    \A b \in DOMAIN task :
        /\ task[b].embedding.customRequests <= 1
        /\ task[b].embedding.fallbackRequests <= 3
        /\ task[b].embedding.result = "threw" /\ task[b].pc = "done"
             => /\ batches[b].batch_status = "failed"
                /\ batches[b].error_message # ""
                /\ \A g \in DOMAIN grievances : grievances[g].batch_id # b

\* C24: whenever no save step is in progress, in particular after a batch has
\* failed, every persisted grievance (all are inserted with processed = 1)
\* has its embedding row.
C24_EmbeddingPerGrievance ==
    (\A b \in DOMAIN task : task[b].pc # "saveEmbedding") =>
        \A id \in DOMAIN grievances : grievances[id].has_embedding

----------------------------------------------------------------------------
(* Properties of the embedding client *)

\* C12: the embedding client returns a result only when the response is a
\* list with one vector per input text, every vector of exactly 384 entries;
\* any other shape, from either endpoint and also for one text, is a failed
\* attempt.
C12_OnlyWellShaped ==
    call.pc = "called" /\ call.res.result = "returned" => call.accepted = "valid"

----------------------------------------------------------------------------
(* Properties of classification, persistence and clusters *)

\* C11: no vector used by a batch's deduplication, of the batch itself or of
\* the historical pool it reads, was produced by the synthetic fallback
\* generator (the batch's own vectors come from generateBatchEmbeddings, which
\* throws instead; the pool holds whatever table embeddings holds).
C11_NoSyntheticVector ==
    job.pc # "idle" =>
        \A h \in 1..Len(job.inp.hist) : job.inp.hist[h].vector_source # "synthetic"

\* C13: when the best match of a batch grievance is an earlier grievance of
\* the same batch, the persisted matched_grievance_id is the persisted id of
\* that earlier grievance; no persisted row holds a batch_<index> placeholder.
C13_MatchedIdIsPersistedId ==
    /\ \A id \in DOMAIN grievances : grievances[id].matched_grievance_id[1] # "batch"
    /\ (job.pc \in {"saved", "clustered", "done"} /\ job.deletes = 0) =>
          \A i \in 1..Len(job.results) :
              job.results[i].globalMatchId[1] = "batch" =>
                  grievances[job.savedResults[i].id].matched_grievance_id
                    = RealId(job.savedResults[job.results[i].globalMatchId[2] + 1].id)

ClusterIds == DOMAIN duplicate_clusters

MemberIds(c) == {m.grievance_id : m \in {x \in cluster_members : x.cluster_id = c}}

\* C14: every persisted cluster has at least one member and its
\* primary_grievance_id is not the grievance id of any of its members; a
\* result whose matched id is null or a batch_* placeholder creates no cluster.
C14_ClusterShape ==
    /\ \A c \in ClusterIds :
          /\ MemberIds(c) # {}
          /\ duplicate_clusters[c].primary_grievance_id \notin MemberIds(c)
    /\ job.pc \in {"clustered", "done"} =>
          \A i \in 1..Len(job.savedResults) :
              job.savedResults[i].matchedId[1] # "id" =>
                  \A c \in ClusterIds : job.savedResults[i].id \notin MemberIds(c)

\* C15: for every persisted cluster, member_count equals the number of
\* cluster_members rows of that cluster, in every reachable state.
C15_MemberCount ==
    \A c \in ClusterIds :
        duplicate_clusters[c].member_count
          = Cardinality({m \in cluster_members : m.cluster_id = c})

\* C16: a database error while persisting one cluster or one of its members
\* does not abort the batch: every other cluster is still attempted (so every
\* cluster whose own INSERT succeeds has its row), and the batch ends
\* completed with its counters written.
C16_ClusterErrorsDoNotAbort ==
    /\ job.pc \in {"clustered", "done"} =>
          \A key \in ClusterKeys(job.savedResults) :
              job.fails[key] # 0 =>
                  \E c \in ClusterIds :
                      /\ duplicate_clusters[c].batch_id = job.batchId
                      /\ duplicate_clusters[c].primary_grievance_id = key
    /\ job.pc = "done" =>
          /\ batches[job.batchId].batch_status = "completed"
          /\ batches[job.batchId].total_grievances = Len(job.savedResults)
          /\ batches[job.batchId].unique_count
               = calculateBatchStats(job.savedResults).unique

\* C16 witness: the batch is completed although the INSERT of its first
\* cluster failed, and its second cluster is persisted.
C16_Witness ==
    /\ job.pc = "done"
    /\ batches[job.batchId].batch_status = "completed"
    /\ \E k1 \in DOMAIN job.fails, k2 \in DOMAIN job.fails :
          /\ k1 < k2
          /\ job.fails[k1] <= Len(MembersOf(job.savedResults, k1))
          /\ \E c \in ClusterIds : /\ duplicate_clusters[c].primary_grievance_id = k2
                                  /\ duplicate_clusters[c].batch_id = job.batchId

\* C17: for every cluster built from a batch, each cluster_members.grievance_id
\* references an existing grievance of the same batch as the cluster's
\* primary_grievance_id.
C17_MembersInPrimaryBatch ==
    \A m \in cluster_members :
        LET primary == duplicate_clusters[m.cluster_id].primary_grievance_id
        IN  /\ m.grievance_id \in DOMAIN grievances
            /\ ~grievances[m.grievance_id].deleted
            /\ primary \in DOMAIN grievances
            /\ grievances[m.grievance_id].batch_id = grievances[primary].batch_id

\* the classification of the batch cut after its first N grievances, with
\* the same pool and thresholds
PrefixResult(N) ==
    LET pre == [job.inp EXCEPT !.items = SubSeq(@, 1, N)]
    IN  applyDBSCANClustering(hierarchicalDeduplication(pre, job.thr), pre, job.thr)[N]

\* C18: the status, score and matched id of grievance N do not depend on the
\* grievances that follow it in the batch.
C18_PrefixIndependence ==
    job.pc # "idle" =>
        \A N \in 1..Len(job.inp.items) :
            /\ PrefixResult(N).finalStatus = job.results[N].finalStatus
            /\ SavedScore(PrefixResult(N)) = SavedScore(job.results[N])
            /\ PrefixResult(N).globalMatchId = job.results[N].globalMatchId

\* C19: every member of a DBSCAN cluster that was still UNIQUE after the
\* pairwise passes, other than the member with the earliest page, is
\* persisted as NEAR_DUPLICATE with matched_grievance_id equal to the
\* persisted id of that earliest member.
C19_ClusterMatchPersisted ==
    (job.pc \in {"saved", "clustered", "done"} /\ job.deletes = 0) =>
        \A i \in 1..Len(job.results) :
            job.results[i].clusteredWith >= 0 =>
                LET row == grievances[job.savedResults[i].id]
                IN  /\ row.duplicate_status = "NEAR_DUPLICATE"
                    /\ row.matched_grievance_id
                         = RealId(job.savedResults[job.results[i].clusteredWith + 1].id)

\* C20: every comparison used for classification, in the pass over the batch
\* and the historical pool as in the pass within a PDF, applies the category
\* modifier of the two grievances' categories; so a grievance whose only
\* candidate has a different non-OTHER category is UNIQUE when its score
\* without the penalty is below the threshold plus 0.25.
C20_CategoryModifierEverywhere ==
    job.pc # "idle" =>
        \A i \in 1..Len(job.inp.items) :
            LET pool == SearchPool(job.inp, i)
                scores == PoolScores(job.inp, i, job.thr)
            IN  /\ \A k \in 1..Len(pool) :
                      pool[k].id[1] = "batch" =>
                          scores[k] = computeContextualSimilarity(
                                          job.inp.items[i].category, pool[k].category,
                                          PairOf(job.inp, i, pool[k]), job.thr)
                /\ (/\ i = 2 /\ job.inp.hist = <<>>
                    /\ categoryModifier(job.inp.items[1].category,
                                        job.inp.items[2].category) = -250
                    /\ computeContextualSimilarity("OTHER", "OTHER",
                                                   job.inp.pairs[<<1, 2>>], job.thr)
                         < job.thr["near_duplicate"] + 250)
                     => job.hier[i].finalStatus = "UNIQUE"

\* C21: every batch grievance whose best score against the earlier grievances
\* of its PDF is at least the duplicate threshold is persisted as DUPLICATE,
\* with that score, and with local_duplicate_of equal to the persisted id of
\* that best-matching earlier grievance, which was persisted before it.
C21_LocalDuplicatePersisted ==
    (job.pc \in {"saved", "clustered", "done"} /\ job.deletes = 0) =>
        \A i \in 1..Len(job.inp.items) :
            BestLocalScore(job.inp, i, job.thr) >= job.thr["duplicate"] =>
                LET row == grievances[job.savedResults[i].id]
                IN  /\ row.duplicate_status = "DUPLICATE"
                    /\ row.similarity_score = BestLocalScore(job.inp, i, job.thr)
                    /\ \E j \in LocalCandidates(job.inp, i) :
                          /\ LocalScore(job.inp, i, j, job.thr)
                               = BestLocalScore(job.inp, i, job.thr)
                          /\ \A x \in LocalCandidates(job.inp, i) :
                                x < j => LocalScore(job.inp, i, x, job.thr)
                                           < BestLocalScore(job.inp, i, job.thr)
                          /\ row.local_duplicate_of = RealId(job.savedResults[j].id)
                          /\ job.savedResults[j].id < job.savedResults[i].id
                          /\ ~grievances[job.savedResults[j].id].deleted

\* C21 witness: a local duplicate was persisted by a batch that found a
\* grievance already stored.
C21_Witness ==
    /\ job.pc \in {"saved", "clustered", "done"}
    /\ job.deletes = 0
    /\ job.savedResults[1].id > 1
    /\ \E i \in 1..Len(job.inp.items) :
          /\ BestLocalScore(job.inp, i, job.thr) >= job.thr["duplicate"]
          /\ grievances[job.savedResults[i].id].duplicate_status = "DUPLICATE"

\* C25: a batch classifies all its grievances, in the three passes, with one
\* snapshot of the threshold store, and a feedback write that lands while the
\* batch is running changes no classification of that batch: the results are
\* those that the thresholds stored when the batch started give.
C25_SnapshotAtStart ==
    job.pc = "classified" =>
        LET atStart == getAdaptiveThresholds(job.atStart, TRUE)
        IN  /\ job.hier = hierarchicalDeduplication(job.inp, job.thr)
            /\ job.results = applyDBSCANClustering(job.hier, job.inp, job.thr)
            /\ job.results
                 = applyDBSCANClustering(hierarchicalDeduplication(job.inp, atStart),
                                         job.inp, atStart)

\* C26: for every weight map inside the declared ranges, a weight of 0
\* included, the base score is (cosine*w_cos + jaccard*w_jac + ngram*w_ng)
\* divided by the sum of the four stored weights, rounded to 3 decimals.
C26_StoredWeights ==
    call.pc = "scored" =>
        call.score
          = RoundDiv(call.pr.cosine * thresholds["cosine_weight"].current_value
                       + call.pr.jaccard * thresholds["jaccard_weight"].current_value
                       + call.pr.ngram * thresholds["ngram_weight"].current_value,
                     thresholds["cosine_weight"].current_value
                       + thresholds["jaccard_weight"].current_value
                       + thresholds["ngram_weight"].current_value
                       + thresholds["metadata_weight"].current_value)

\* the DBSCAN cluster of grievance i of the batch ({} when it is in none)
JobClusterOf(i) ==
    LET eps == 1000 - OrElse(job.thr["near_duplicate"], 300)
    IN  IF Len(job.inp.items) < 2 THEN {}
        ELSE ClusterOf(job.inp, dbscanCluster(job.inp, eps), i)

----------------------------------------------------------------------------
(* Properties of feedback handlers running at the same time *)

\* C28: when feedback handlers for the same listed transition interleave
\* their read of the threshold and their write of the new value, the stored
\* value and adjustment_count at the end are those of the same events applied
\* one after the other.
C28_SerializableFeedback ==
    (call.pc = "handlers" /\ \A h \in 1..MaxHandlers : call.handler[h].pc = "done") =>
        thresholds = OneAfterTheOther(SeedThresholds, call.originalStatus,
                                      call.correctedStatus, MaxHandlers)

\* C29: for every grievance a batch persists, the status agrees with the
\* persisted similarity_score under the thresholds the batch used: DUPLICATE
\* implies score >= duplicate, NEAR_DUPLICATE implies near_duplicate <= score
\* < duplicate, UNIQUE implies score < near_duplicate.
C29_StatusAgreesWithScore ==
    (job.pc \in {"saved", "clustered", "done"} /\ job.deletes = 0) =>
        \A i \in 1..Len(job.savedResults) :
            LET row == grievances[job.savedResults[i].id]
                score == row.similarity_score
            IN  /\ row.duplicate_status = "DUPLICATE" => score >= job.thr["duplicate"]
                /\ row.duplicate_status = "NEAR_DUPLICATE" =>
                      score >= job.thr["near_duplicate"] /\ score < job.thr["duplicate"]
                /\ row.duplicate_status = "UNIQUE" => score < job.thr["near_duplicate"]

----------------------------------------------------------------------------
(* Properties of dbscanCluster *)

\* the points linked to the points of S by a chain of pairs within eps
RECURSIVE Component(_, _, _)
Component(inp, eps, S) ==
    LET T == S \cup UNION {regionQuery(inp, p, eps) : p \in S}
    IN  IF T = S THEN S ELSE Component(inp, eps, T)

\* what holds when the call has returned: no point unvisited, the clusters
\* disjoint, and the clusters the connected components of at least 2 points
DbscanResult ==
    call.pc = "returned" =>
        /\ \A p \in 1..Len(call.inp.items) : call.labels[p] # -1
        /\ \A c \in call.clusters, d \in call.clusters : c # d => c \cap d = {}
        /\ call.clusters
             = { c \in {Component(call.inp, call.eps, {p}) : p \in 1..Len(call.inp.items)} :
                   Cardinality(c) >= 2 }
        /\ call.labels = dbscanCluster(call.inp, call.eps)

\* a point that has a cluster label keeps it
DbscanLabelKept ==
    (call.pc \in {"main", "expand"}) =>
        \A p \in 1..Len(call.inp.items) :
            call.labels[p] > 0 => call'.labels[p] = call.labels[p]

\* C30: with minPts = 2, dbscanCluster terminates for every input with no
\* point left unvisited, never changes a cluster label once a point has one,
\* puts each point in at most one cluster, and returns exactly the connected
\* components of size at least 2 of the graph linking i and j when
\* 1 - cosine(i, j) <= eps.
C30_DbscanComponents ==
    /\ []DbscanResult
    /\ [][DbscanLabelKept]_vars
    /\ <>(call.pc = "returned")

\* C30 witness: the call returned a cluster of at least 3 points, two of
\* which are linked only through a third, and a point outside it.
C30_Witness ==
    /\ call.pc = "returned"
    /\ \E c \in call.clusters :
          /\ Cardinality(c) >= 3
          /\ \E a \in c, b \in c : b \notin regionQuery(call.inp, a, call.eps)
          /\ \E p \in 1..Len(call.inp.items) : p \notin c

----------------------------------------------------------------------------
(* Properties of text preprocessing *)

\* C22: text normalization is idempotent: preprocessText applied to its own
\* result gives that result again, also for words a suffix rule applies to.
C22_NormalizationIdempotent ==
    call.pc = "normalized" => call.twice = call.once

\* C23: every grievance a batch persists passed the validity check (at least
\* 30 characters and 10 tokens, no header pattern, a complaint keyword).
C23_PersistedAreValid ==
    call.pc = "filtered" =>
        \A k \in 1..Len(call.allGrievances) : isValidGrievance(call.allGrievances[k])

----------------------------------------------------------------------------
(* Properties of the threshold store and the feedback route *)

Stored(t) == thresholds[t]

\* C5: after any sequence of feedback events from the seeded rows the stored
\* near_duplicate threshold is at most the stored duplicate threshold.
C5_ThresholdOrdering ==
    Stored("near_duplicate").current_value <= Stored("duplicate").current_value

\* C6: after any sequence of feedback events (handlers that fail part-way
\* included) the duplicate and the near_duplicate row each keep
\* min_value <= current_value <= max_value.
C6_WithinBounds ==
    \A t \in {"duplicate", "near_duplicate"} :
        /\ Stored(t).min_value <= Stored(t).current_value
        /\ Stored(t).current_value <= Stored(t).max_value

\* a row sits on a bound after three writes, so at least one write was clamped
C6_Witness ==
    \E t \in {"duplicate", "near_duplicate"} :
        /\ Stored(t).adjustment_count = 3
        /\ Stored(t).current_value \in {Stored(t).min_value, Stored(t).max_value}

C8_Table ==
    { <<"UNIQUE", "DUPLICATE", "duplicate", -50>>,
      <<"DUPLICATE", "UNIQUE", "duplicate", 50>>,
      <<"UNIQUE", "NEAR_DUPLICATE", "near_duplicate", -50>>,
      <<"NEAR_DUPLICATE", "UNIQUE", "near_duplicate", 50>>,
      <<"NEAR_DUPLICATE", "DUPLICATE", "near_duplicate", 50>>,
      <<"DUPLICATE", "NEAR_DUPLICATE", "duplicate", 50>> }

IsFeedbackStep == nFeedback' = nFeedback + 1

C9_UnknownTransition ==
    [][(/\ IsFeedbackStep
        /\ \A e \in C8_Table : <<lastRequest'.original_status,
                                 lastRequest'.corrected_status>> # <<e[1], e[2]>>)
       => /\ thresholds' = thresholds
          /\ BagCount(feedback_logs', lastRequest') =
                BagCount(feedback_logs, lastRequest') + 1]_vars

\* an event with equal statuses has been handled and its row is stored
C9_Witness ==
    /\ lastRequest.original_status = "DUPLICATE"
    /\ lastRequest.corrected_status = "DUPLICATE"
    /\ BagCount(feedback_logs, lastRequest) >= 1
    /\ nFeedback >= 2

====
